---- MODULE Spec2Model ----
(***************************************************************************)
(* CLImage (bloodmagesoftware/climage): the provider contract, the         *)
(* model-settings schema, the provider registry and the interactive        *)
(* session of the root command, as state machines.                         *)
(*                                                                         *)
(* Go strings whose characters the code inspects (setting values, type     *)
(* specs, prompts) are sequences of one-character strings; strings that    *)
(* are only compared (names, error texts, API keys) are TLA+ strings.      *)
(***************************************************************************)
EXTENDS Integers, Sequences, FiniteSets, TLC

VARIABLES
    \* --- GoogleProvider and its environment
    client,         \* GoogleProvider.client: the live genai client, or NoClient
    keyring,        \* the OS secret store, service "climage": user -> entry
    closed,         \* history: Close() ran and no client was made since
    downloadsDir,   \* downloads' cacheOnce/cachedDir/cacheErr
    now,            \* the wall clock, in seconds (time.Now())
    last,           \* what a provider call returned and did, until the
                    \* caller has taken it (op = "none": no call pending)
    \* --- the root command's interactive session
    pc,             \* where the root command is
    cfg,            \* the config file, as the commands load and save it
    googleSettings, \* the Settings that googleSettings' pointers point to
    model,          \* the active composite model identifier
    modelSettings,  \* the active settings collection: which slice it is
    prompt,         \* the prompt variable of RunE
    lastPrompt,     \* the lastPrompt variable of RunE
    retErr,         \* what RunE returned
    reported,       \* the invalid command that the last pass of run()
                    \* printed, or <<>>
    \* --- the provider registry
    Providers,      \* providers.Providers: the registered instances, in order
    closeLog,       \* the provider instances Close() was called on, in order
    regOut,         \* what a registry operation returned, until taken
    \* --- the settings schema
    tv,             \* the candidate value handed to IsOfType
    tt,             \* the type spec handed to IsOfType
    tout,           \* what IsOfType returned, until the caller has taken it
    ams,            \* the ModelSettings collection handed to an accessor
    aout,           \* what the accessor was asked and returned, until taken
    \* --- the files on disk and the auth commands
    files,          \* the image files in the output directory: their paths
    authOut         \* what an auth command did and returned, until taken

provVars == <<client, closed, keyring, downloadsDir, now, last>>
sessVars == <<pc, cfg, googleSettings, model, modelSettings, prompt, lastPrompt, retErr,
               reported>>
regVars  == <<Providers, closeLog, regOut>>
typeVars == <<tv, tt, tout, ams, aout>>
cmdVars  == <<files, authOut>>
vars     == <<provVars, sessVars, regVars, typeVars, cmdVars>>

----------------------------------------------------------------------------
(* Bounds of the model. *)

\* the longest candidate value enumerated character by character
MaxLen == 3
\* the most images one backend response holds
MaxImages == 2
\* the last second of the wall clock
MaxClock == 1
\* the most provider instances in the registry
MaxProviders == 3
\* the longest ModelSettings collection handed to an accessor
MaxSettings == 2

----------------------------------------------------------------------------
(* Strings as character sequences. *)

Digits == {"0", "1", "2", "3", "4", "5", "6", "7", "8", "9"}

DigitVal(c) ==
    CASE c = "0" -> 0 [] c = "1" -> 1 [] c = "2" -> 2 [] c = "3" -> 3
      [] c = "4" -> 4 [] c = "5" -> 5 [] c = "6" -> 6 [] c = "7" -> 7
      [] c = "8" -> 8 [] c = "9" -> 9

\* strings.HasPrefix(s, p)
HasPrefix(s, p) == Len(s) >= Len(p) /\ SubSeq(s, 1, Len(p)) = p

\* strings.CutPrefix(s, p): the rest after p (use only when HasPrefix)
CutPrefix(s, p) == SubSeq(s, Len(p) + 1, Len(s))

\* the index of the first sep in s from position i on, or 0
RECURSIVE IndexFrom(_, _, _)
IndexFrom(s, sep, i) ==
    IF i > Len(s) THEN 0
    ELSE IF s[i] = sep THEN i
    ELSE IndexFrom(s, sep, i + 1)

\* strings.Split(s, sep) for a one-character sep: the fields between the
\* separators; the empty string splits into the one empty field
RECURSIVE Split(_, _)
Split(s, sep) ==
    LET i == IndexFrom(s, sep, 1) IN
    IF i = 0 THEN <<s>>
    ELSE <<SubSeq(s, 1, i - 1)>> \o Split(SubSeq(s, i + 1, Len(s)), sep)

\* slices.Contains
Contains(list, v) == \E i \in 1..Len(list) : list[i] = v

----------------------------------------------------------------------------
(* strconv, as far as IsOfType and the accessors use it. *)

\* the digits loop of the fast path of strconv.Atoi: FALSE at a non-digit
RECURSIVE AllDigits(_, _)
AllDigits(s, i) ==
    IF i > Len(s) THEN TRUE
    ELSE IF s[i] \notin Digits THEN FALSE
    ELSE AllDigits(s, i + 1)

\* n = n*10 + int(ch) over s[i..]
RECURSIVE Accumulate(_, _, _)
Accumulate(s, i, n) ==
    IF i > Len(s) THEN n ELSE Accumulate(s, i + 1, n * 10 + DigitVal(s[i]))

\* strconv.Atoi(s) as [ok, n]: an optional sign, then at least one digit and
\* digits only (strings of fewer than 19 characters cannot be out of range)
Atoi(s) ==
    IF Len(s) = 0 THEN [ok |-> FALSE, n |-> 0]
    ELSE LET signed == s[1] = "-" \/ s[1] = "+"
             body   == IF signed THEN Tail(s) ELSE s
         IN  IF Len(body) < 1 \/ ~AllDigits(body, 1) THEN [ok |-> FALSE, n |-> 0]
             ELSE LET n == Accumulate(body, 1, 0)
                  IN  [ok |-> TRUE, n |-> IF s[1] = "-" THEN 0 - n ELSE n]

\* lower(c) of strconv, for the letters the float syntax knows
Lower(c) ==
    CASE c = "E" -> "e" [] c = "I" -> "i" [] c = "N" -> "n" [] c = "F" -> "f"
      [] c = "A" -> "a" [] c = "T" -> "t" [] c = "Y" -> "y" [] OTHER -> c

\* commonPrefixLenIgnoreCase(s, prefix), prefix in lower case
RECURSIVE CommonPrefixLen(_, _, _)
CommonPrefixLen(s, prefix, i) ==
    IF i > Len(s) \/ i > Len(prefix) THEN i - 1
    ELSE IF Lower(s[i]) # prefix[i] THEN i - 1
    ELSE CommonPrefixLen(s, prefix, i + 1)

\* strconv's special(s): the number of characters of s an infinity or a NaN
\* takes up, or 0
Special(s) ==
    IF Len(s) = 0 THEN 0
    ELSE LET signed == s[1] = "+" \/ s[1] = "-"
             rest   == IF signed THEN Tail(s) ELSE s
             nsign  == IF signed THEN 1 ELSE 0
             ninf   == CommonPrefixLen(rest, <<"i","n","f","i","n","i","t","y">>, 1)
             n      == IF 3 < ninf /\ ninf < 8 THEN 3 ELSE ninf
         IN  IF signed \/ Lower(s[1]) = "i"
             THEN (IF n = 3 \/ n = 8 THEN nsign + n ELSE 0)
             ELSE IF Lower(s[1]) = "n"
                  THEN (IF CommonPrefixLen(s, <<"n","a","n">>, 1) = 3 THEN 3 ELSE 0)
                  ELSE 0

\* strconv's underscoreOK(s) for a string without a base prefix: an
\* underscore follows a digit and a digit follows it; saw is "^" at the
\* beginning, "0" after a digit, "_" after an underscore, "!" otherwise
RECURSIVE UnderscoreLoop(_, _, _)
UnderscoreLoop(s, i, saw) ==
    IF i > Len(s) THEN saw # "_"
    ELSE IF s[i] \in Digits THEN UnderscoreLoop(s, i + 1, "0")
    ELSE IF s[i] = "_"
         THEN (IF saw # "0" THEN FALSE ELSE UnderscoreLoop(s, i + 1, "_"))
    ELSE IF saw = "_" THEN FALSE
    ELSE UnderscoreLoop(s, i + 1, "!")

UnderscoreOK(s) ==
    UnderscoreLoop(IF Len(s) >= 1 /\ (s[1] = "-" \/ s[1] = "+") THEN Tail(s) ELSE s,
                   1, "^")

\* the mantissa loop of strconv's readFloat (base 10) from position i:
\* where it stops, and underscores, sawdot, sawdigits, nd (digits after the
\* leading zeros), dp (the decimal point's place), first (the first two such
\* digits)
RECURSIVE ReadMantissa(_, _, _)
ReadMantissa(s, i, st) ==
    IF i > Len(s) THEN [st EXCEPT !.i = i]
    ELSE IF s[i] = "_"
         THEN ReadMantissa(s, i + 1, [st EXCEPT !.underscores = TRUE])
    ELSE IF s[i] = "."
         THEN IF st.sawdot THEN [st EXCEPT !.i = i]
              ELSE ReadMantissa(s, i + 1, [st EXCEPT !.sawdot = TRUE, !.dp = st.nd])
    ELSE IF s[i] \in Digits
         THEN IF s[i] = "0" /\ st.nd = 0
              THEN ReadMantissa(s, i + 1,
                       [st EXCEPT !.sawdigits = TRUE, !.dp = st.dp - 1])
              ELSE ReadMantissa(s, i + 1,
                       [st EXCEPT !.sawdigits = TRUE, !.nd = st.nd + 1,
                                  !.first = IF st.nd < 2
                                            THEN st.first * 10 + DigitVal(s[i])
                                            ELSE st.first])
    ELSE [st EXCEPT !.i = i]

\* the exponent digits loop of readFloat: [i, e, underscores], e capped as
\* the code caps it
RECURSIVE ReadExponent(_, _, _, _)
ReadExponent(s, i, e, u) ==
    IF i > Len(s) \/ (s[i] \notin Digits /\ s[i] # "_")
    THEN [i |-> i, e |-> e, underscores |-> u]
    ELSE IF s[i] = "_" THEN ReadExponent(s, i + 1, e, TRUE)
    ELSE ReadExponent(s, i + 1, IF e < 10000 THEN e * 10 + DigitVal(s[i]) ELSE e, u)

\* readFloat(s) for a string without the prefix 0x:
\* [ok, n (characters taken), nd, dp, first]
ReadFloat(s) ==
    LET bad == [ok |-> FALSE, n |-> 0, nd |-> 0, dp |-> 0, first |-> 0]
        i0  == IF Len(s) >= 1 /\ (s[1] = "+" \/ s[1] = "-") THEN 2 ELSE 1
        m   == ReadMantissa(s, i0, [i |-> i0, underscores |-> FALSE,
                                    sawdot |-> FALSE, sawdigits |-> FALSE,
                                    nd |-> 0, dp |-> 0, first |-> 0])
        dp0 == IF m.sawdot THEN m.dp ELSE m.nd
        Checked(r, underscores) ==
            IF underscores /\ ~UnderscoreOK(SubSeq(s, 1, r.n)) THEN bad ELSE r
    IN  IF Len(s) = 0 \/ ~m.sawdigits THEN bad
        ELSE IF m.i <= Len(s) /\ Lower(s[m.i]) = "e"
             THEN LET j  == m.i + 1
                      sg == j <= Len(s) /\ (s[j] = "+" \/ s[j] = "-")
                      k  == IF sg THEN j + 1 ELSE j
                  IN  IF j > Len(s) THEN bad
                      ELSE IF k > Len(s) \/ s[k] \notin Digits THEN bad
                      ELSE LET x == ReadExponent(s, k, 0, m.underscores)
                               esign == IF s[j] = "-" THEN 0 - 1 ELSE 1
                           IN  Checked([ok |-> TRUE, n |-> x.i - 1, nd |-> m.nd,
                                        dp |-> dp0 + x.e * esign, first |-> m.first],
                                       x.underscores)
             ELSE Checked([ok |-> TRUE, n |-> m.i - 1, nd |-> m.nd, dp |-> dp0,
                           first |-> m.first], m.underscores)

\* whether 0.d1d2... * 10^dp rounds to an infinity of float64 (ErrRange):
\* the largest float64 is 1.797...e308, so the first two digits decide for
\* a mantissa of one or two digits
FloatOverflows(r) ==
    /\ r.nd > 0
    /\ \/ r.dp > 309
       \/ r.dp = 309 /\ (IF r.nd = 1 THEN r.first * 10 ELSE r.first) >= 18

\* strconv.ParseFloat(s, 64) returns no error
ParseFloatOK(s) ==
    LET sp == Special(s)
        r  == ReadFloat(s)
    IN  IF sp > 0 THEN sp = Len(s)
        ELSE r.ok /\ r.n = Len(s) /\ ~FloatOverflows(r)

----------------------------------------------------------------------------
(* The settings schema: providers.go. *)

TInt     == <<"i","n","t">>
TFloat   == <<"f","l","o","a","t">>
TString  == <<"s","t","r","i","n","g">>
TBoolean == <<"b","o","o","l","e","a","n">>
EnumPrefix == <<"e","n","u","m",":">>
VTrue    == <<"t","r","u","e">>
VFalse   == <<"f","a","l","s","e">>

\* IsOfType writes "unknown model setting type" to the log
IsOfTypeLogs(t) ==
    /\ t \notin {TInt, TFloat, TString, TBoolean}
    /\ ~HasPrefix(t, EnumPrefix)

\* IsOfType(v, t): the switch over the type spec
IsOfType(v, t) ==
    IF t = TInt THEN Atoi(v).ok
    ELSE IF t = TFloat THEN ParseFloatOK(v)
    ELSE IF t = TString THEN TRUE
    ELSE IF t = TBoolean THEN v = VTrue \/ v = VFalse
    ELSE IF HasPrefix(t, EnumPrefix)
         THEN LET unionFields == Split(CutPrefix(t, EnumPrefix), "|")
              IN  IF Len(unionFields) = 0 THEN FALSE
                  ELSE IF Len(unionFields) <= 8 THEN Contains(unionFields, v)
                  ELSE Contains(unionFields, v)
         ELSE FALSE

\* the Setting named name that the accessors' loop finds first, or 0
RECURSIVE FindSetting(_, _, _)
FindSetting(ms, name, i) ==
    IF i > Len(ms) THEN 0
    ELSE IF ms[i].Name = name THEN i
    ELSE FindSetting(ms, name, i + 1)

\* an accessor that returns the default for a Setting whose Value is empty
GetModelSettingString_defaultsEmpty(ms, name, defaultValue) ==
    LET i == FindSetting(ms, name, 1) IN
    IF i # 0 /\ ms[i].Value # <<>> THEN ms[i].Value ELSE defaultValue

GetModelSettingString(ms, name, defaultValue) ==
    LET i == FindSetting(ms, name, 1) IN
    IF i # 0 THEN ms[i].Value ELSE defaultValue

GetModelSettingBool(ms, name, defaultValue) ==
    LET i == FindSetting(ms, name, 1) IN
    IF i # 0 THEN ms[i].Value = VTrue ELSE defaultValue

\* an accessor that returns what strconv.Atoi returned beside its error
GetModelSettingInt_ignoresErr(ms, name, defaultValue) ==
    LET i == FindSetting(ms, name, 1) IN
    IF i # 0 THEN Atoi(ms[i].Value).n ELSE defaultValue

GetModelSettingInt(ms, name, defaultValue) ==
    LET i == FindSetting(ms, name, 1) IN
    IF i # 0
    THEN (IF Atoi(ms[i].Value).ok THEN Atoi(ms[i].Value).n ELSE defaultValue)
    ELSE defaultValue

\* the Type of aspect_ratio: "enum:1:1|16:9|4:3|9:16|3:4"
TAspectRatio ==
    EnumPrefix \o <<"1",":","1","|","1","6",":","9","|","4",":","3","|",
                    "9",":","1","6","|","3",":","4">>

\* googleSettings as declared: every Value empty
googleSettingsDecl ==
    << [Name |-> "number_of_images", Type |-> TInt,
        DefaultValue |-> <<"1">>, Value |-> <<>>],
       [Name |-> "aspect_ratio", Type |-> TAspectRatio,
        DefaultValue |-> <<"1",":","1">>, Value |-> <<>>] >>

\* the Name of every model of GoogleModels, in order
GoogleModels ==
    <<"imagen-4.0-generate-001", "imagen-4.0-ultra-generate-001",
      "imagen-4.0-fast-generate-001">>

----------------------------------------------------------------------------
(* The Google provider: its credentials, its client, GenerateImage. *)

\* API keys a user may hold
Keys == {"k1", "k2"}

\* the secret store's users under the service "climage"
KeyringUsers == {"google"}

NoSecret == [found |-> FALSE, secret |-> ""]
Secret(k) == [found |-> TRUE, secret |-> k]

\* p.client == nil, and a client made by genai.NewClient with an API key
NoClient == [live |-> FALSE, APIKey |-> ""]
Client(k) == [live |-> TRUE, APIKey |-> k]

\* a credentials map: without the field api_key, or with it
NoCredentials == [has_api_key |-> FALSE, api_key |-> ""]
Credentials(k) == [has_api_key |-> TRUE, api_key |-> k]
CredentialsSet == {NoCredentials} \cup {Credentials(k) : k \in Keys}

ErrNil == "nil"
ErrSecretNotFound == "secret not found in keyring"
ErrKeyring == "keyring unavailable"
ErrNotLoggedIn == "not logged in to Google"
ErrNoAPIKey == "api_key not provided"
ErrNewClient == "failed to create GenAI client"
ErrLogin == "failed to login to Google: failed to create GenAI client"
ErrBackend == "google: backend error"
ErrOutDir == "failed to get out dir"
ErrUnsupported == "unsupported image type"
ErrWrite == "failed to write image"

\* the content types a backend may report for an image. An image that was
\* filtered upstream comes back with its RAI reason and without a payload:
\* its MIMEType is empty
MimeTypes == {"image/png", "image/jpeg", "image/gif", "image/webp", ""}
SupportedMimeTypes == {"image/png", "image/jpeg", "image/gif"}

GeneratedImage(m) == [MIMEType |-> m, RAIFilteredReason |-> IF m = "" THEN "filtered" ELSE ""]
IsFiltered(img) == img.RAIFilteredReason # ""
IsAccepted(img) == ~IsFiltered(img) /\ img.MIMEType \in SupportedMimeTypes

\* every sequence over S of length at most n
SeqsUpTo(S, n) == UNION {[1..k -> S] : k \in 0..n}

\* resp.GeneratedImages of a backend response
Responses == SeqsUpTo({GeneratedImage(m) : m \in MimeTypes}, MaxImages)

\* what the environment may do to one call (the code returns at the first
\* failure it meets, so one fault a call is every outcome):
\*   "keyring"   the secret store cannot be reached
\*   "newclient" genai.NewClient fails
\*   "backend"   Models.GenerateImages fails
\*   "outdir"    the downloads directory cannot be determined
\*   k in 1..n   os.WriteFile fails for the k-th image
Faults == {"none", "keyring", "newclient", "backend", "outdir"}
NoFault == [fault |-> "none", failAt |-> 0]
Envs(images) ==
    {[fault |-> f, failAt |-> 0] : f \in Faults}
        \cup {[fault |-> "write", failAt |-> k] : k \in 1..Len(images)}

\* keyring.Get
KeyringGet(kr, user, fault) ==
    IF fault = "keyring" THEN [err |-> ErrKeyring, secret |-> ""]
    ELSE IF ~kr[user].found THEN [err |-> ErrSecretNotFound, secret |-> ""]
    ELSE [err |-> ErrNil, secret |-> kr[user].secret]

\* keyring.Set
KeyringSet(kr, user, secret, fault) ==
    IF fault = "keyring" THEN [err |-> ErrKeyring, keyring |-> kr]
    ELSE [err |-> ErrNil, keyring |-> [kr EXCEPT ![user] = Secret(secret)]]

\* keyring.Delete: ErrNotFound when there is no such entry
KeyringDelete(kr, user, fault) ==
    IF fault = "keyring" THEN [err |-> ErrKeyring, keyring |-> kr]
    ELSE IF ~kr[user].found THEN [err |-> ErrSecretNotFound, keyring |-> kr]
    ELSE [err |-> ErrNil, keyring |-> [kr EXCEPT ![user] = NoSecret]]

\* GoogleProvider.SaveCredentials
SaveCredentials(kr, credentials, fault) ==
    IF ~credentials.has_api_key THEN [err |-> ErrNoAPIKey, keyring |-> kr]
    ELSE KeyringSet(kr, "google", credentials.api_key, fault)

\* a LoadCredentials that returns what the secret store gave with no error
LoadCredentials_ignoresErr(kr, fault) ==
    [err |-> ErrNil, credentials |-> Credentials(KeyringGet(kr, "google", fault).secret)]

\* GoogleProvider.LoadCredentials
LoadCredentials(kr, fault) ==
    LET g == KeyringGet(kr, "google", fault) IN
    IF g.err # ErrNil THEN [err |-> ErrNotLoggedIn, credentials |-> NoCredentials]
    ELSE [err |-> ErrNil, credentials |-> Credentials(g.secret)]

\* GoogleProvider.DeleteCredentials
DeleteCredentials(kr, fault) == KeyringDelete(kr, "google", fault)

\* a Login that does not look at p.client first
Login_noGuard(cl, credentials, fault) ==
    IF ~credentials.has_api_key
    THEN [err |-> ErrNoAPIKey, client |-> cl, newClient |-> FALSE]
    ELSE IF fault = "newclient"
    THEN [err |-> ErrNewClient, client |-> cl, newClient |-> TRUE]
    ELSE [err |-> ErrNil, client |-> Client(credentials.api_key), newClient |-> TRUE]

\* GoogleProvider.Login: [err, client (p.client afterwards), newClient
\* (whether genai.NewClient was called)]
Login(cl, credentials, fault) ==
    IF cl.live THEN [err |-> ErrNil, client |-> cl, newClient |-> FALSE]
    ELSE IF ~credentials.has_api_key
    THEN [err |-> ErrNoAPIKey, client |-> cl, newClient |-> FALSE]
    ELSE IF fault = "newclient"
    THEN [err |-> ErrNewClient, client |-> cl, newClient |-> TRUE]
    ELSE [err |-> ErrNil, client |-> Client(credentials.api_key), newClient |-> TRUE]

\* a Close that keeps the client
Close_keepsClient(cl) == [err |-> ErrNil, client |-> cl]

\* GoogleProvider.Close
Close(cl) == [err |-> ErrNil, client |-> NoClient]

\* downloads.GetUserDownloadsDir: decided by the first call, cached after it
GetUserDownloadsDir(cache, fault) ==
    IF cache # "unset" THEN cache
    ELSE IF fault = "outdir" THEN "err" ELSE "ok"

\* the switch over img.Image.MIMEType: the extension, "" when unsupported
ExtOf(mime) ==
    CASE mime = "image/png"  -> ".png"
      [] mime = "image/jpeg" -> ".jpg"
      [] mime = "image/gif"  -> ".gif"
      [] OTHER -> ""

\* filepath.Join(dir, fmt.Sprintf("%s_%x_%s", nowDateTime, i, ext)), with
\* nowDateTime of one-second resolution (time.RFC3339)
FilePath(t, i, ext) == [time |-> t, index |-> i, ext |-> ext]

\* a loop that leaves out an image of an unsupported type and goes on
RECURSIVE WriteImages_skips(_, _, _, _, _)
WriteImages_skips(images, i, t, failAt, acc) ==
    IF i > Len(images) THEN [err |-> ErrNil, filePaths |-> acc, written |-> acc]
    ELSE LET ext == ExtOf(images[i].MIMEType) IN
         IF ext = "" THEN WriteImages_skips(images, i + 1, t, failAt, acc)
         ELSE IF failAt = i
         THEN [err |-> ErrWrite, filePaths |-> <<>>, written |-> acc]
         ELSE WriteImages_skips(images, i + 1, t, failAt,
                                Append(acc, FilePath(t, i - 1, ext)))

\* the loop over resp.GeneratedImages from the i-th image on (the code's
\* index is i - 1): [err, filePaths (returned), written (files on disk)]
RECURSIVE WriteImages(_, _, _, _, _)
WriteImages(images, i, t, failAt, acc) ==
    IF i > Len(images) THEN [err |-> ErrNil, filePaths |-> acc, written |-> acc]
    ELSE LET ext == ExtOf(images[i].MIMEType) IN
         IF ext = ""
         THEN [err |-> ErrUnsupported, filePaths |-> <<>>, written |-> acc]
         ELSE IF failAt = i
         THEN [err |-> ErrWrite, filePaths |-> <<>>, written |-> acc]
         ELSE WriteImages(images, i + 1, t, failAt,
                          Append(acc, FilePath(t, i - 1, ext)))

\* nothing was sent to the backend
NoSent == [model |-> "", prompt |-> <<>>, NumberOfImages |-> 0, AspectRatio |-> <<>>]

\* what a call returned and did, before it did anything
NoCall ==
    [op |-> "none", err |-> ErrNil, filePaths |-> <<>>, written |-> <<>>,
     newClient |-> FALSE, generate |-> FALSE, sent |-> NoSent,
     credentials |-> NoCredentials, images |-> <<>>,
     wasLive |-> FALSE, clientWas |-> NoClient, hadSecret |-> FALSE,
     afterClose |-> FALSE]

\* GoogleProvider.GenerateImage on client cl, secret store kr, downloads
\* cache dd, at second t, where the backend answers images and the
\* environment does env: [out (what it returned and did), client and
\* downloadsDir (the client and the downloads cache afterwards)]
GenerateImage(cl, kr, dd, t, modelName, promptText, settings, images, env) ==
    LET load  == LoadCredentials(kr, env.fault)
        login == Login(cl, load.credentials, env.fault)
        dir   == GetUserDownloadsDir(dd, env.fault)
        w     == WriteImages(images, 1, t, env.failAt, <<>>)
        r0    == [NoCall EXCEPT !.op = "GenerateImage", !.images = images,
                                !.wasLive = cl.live, !.clientWas = cl,
                                !.hadSecret = kr["google"].found]
        sent  == [model |-> modelName, prompt |-> promptText,
                  NumberOfImages |-> GetModelSettingInt(settings, "number_of_images", 1),
                  AspectRatio |-> GetModelSettingString(settings, "aspect_ratio",
                                                        <<"1", ":", "1">>)]
    IN  IF ~cl.live /\ load.err # ErrNil
        THEN [out |-> [r0 EXCEPT !.err = load.err],
              client |-> cl, downloadsDir |-> dd]
        ELSE IF ~cl.live /\ login.err # ErrNil
        THEN [out |-> [r0 EXCEPT !.err = ErrLogin, !.newClient = login.newClient],
              client |-> login.client, downloadsDir |-> dd]
        ELSE LET cl1 == IF cl.live THEN cl ELSE login.client
                 r1  == [r0 EXCEPT !.newClient = ~cl.live, !.generate = TRUE,
                                   !.sent = sent]
             IN  IF env.fault = "backend"
                 THEN [out |-> [r1 EXCEPT !.err = ErrBackend],
                       client |-> cl1, downloadsDir |-> dd]
                 ELSE IF dir = "err"
                 THEN [out |-> [r1 EXCEPT !.err = ErrOutDir],
                       client |-> cl1, downloadsDir |-> dir]
                 ELSE [out |-> [r1 EXCEPT !.err = w.err, !.filePaths = w.filePaths,
                                          !.written = w.written],
                       client |-> cl1, downloadsDir |-> dir]

----------------------------------------------------------------------------
(* The provider registry: providers.go, and its use by the config. *)

\* a registered Provider instance: the GoogleProvider that google.go's init
\* registers, or another implementation of the interface, whose Close may
\* fail and which offers no models
GoogleInstance == [name |-> "google", kind |-> "google", closeFails |-> FALSE]
OtherInstance(n, fails) == [name |-> n, kind |-> "other", closeFails |-> fails]

\* the loop of GetProviderByName and of config.Provider.Get: the index of
\* the first instance from i on whose GetName() is name, or 0
RECURSIVE FirstNamed(_, _, _)
FirstNamed(reg, name, i) ==
    IF i > Len(reg) THEN 0
    ELSE IF reg[i].name = name THEN i
    ELSE FirstNamed(reg, name, i + 1)

\* a lookup that returns the last instance of that name
RECURSIVE LastNamed(_, _, _)
LastNamed(reg, name, i) ==
    IF i < 1 THEN 0
    ELSE IF reg[i].name = name THEN i
    ELSE LastNamed(reg, name, i - 1)

ErrProviderNotFound == "provider not found"

GetProviderByName_last(reg, name) ==
    LET i == LastNamed(reg, name, Len(reg)) IN
    IF i # 0 THEN [provider |-> i, err |-> ErrNil]
    ELSE [provider |-> 0, err |-> ErrProviderNotFound]

\* GetProviderByName: [provider (its place in the registry, 0 for nil), err]
GetProviderByName(reg, name) ==
    LET i == FirstNamed(reg, name, 1) IN
    IF i # 0 THEN [provider |-> i, err |-> ErrNil]
    ELSE [provider |-> 0, err |-> ErrProviderNotFound]

\* a catalog in which every model after the first has Settings of its own
ModelsOf_ownSettings(inst) ==
    IF inst.kind = "google"
    THEN [j \in 1..Len(GoogleModels) |->
            [id |-> <<inst.name, GoogleModels[j]>>, Name |-> <<GoogleModels[j]>>,
             Settings |-> IF j = 1 THEN "googleSettings" ELSE "ownSettings"]]
    ELSE <<>>

\* p.GetModels(): GoogleModels, each with Settings googleSettings (the same
\* slice of pointers for every model), under its composite identifier
\* GetName() + "/" + Name. An identifier is the sequence of its segments
\* between the "/"
ModelsOf(inst) ==
    IF inst.kind = "google"
    THEN [j \in 1..Len(GoogleModels) |->
            [id |-> <<inst.name, GoogleModels[j]>>, Name |-> <<GoogleModels[j]>>,
             Settings |-> "googleSettings"]]
    ELSE <<>>

\* Config.GetModels from the i-th configured provider on: the iteration
\* returns at a configured name that is not registered
RECURSIVE ConfigGetModels(_, _, _)
ConfigGetModels(cfgProviders, reg, i) ==
    IF i > Len(cfgProviders) THEN <<>>
    ELSE LET pp == GetProviderByName(reg, cfgProviders[i]) IN
         IF pp.err # ErrNil THEN <<>>
         ELSE ModelsOf(reg[pp.provider]) \o ConfigGetModels(cfgProviders, reg, i + 1)

ErrCloseFailed == "close failed"
ErrJoined == "errors.Join"

\* p.Close() of a registered instance on the GoogleProvider's client cl
InstanceClose(inst, cl) ==
    IF inst.kind = "google" THEN Close(cl)
    ELSE [err |-> IF inst.closeFails THEN ErrCloseFailed ELSE ErrNil, client |-> cl]

\* a loop that returns at the first Close that fails
RECURSIVE CloseLoop_stopsAtFailure(_, _, _)
CloseLoop_stopsAtFailure(reg, i, acc) ==
    IF i > Len(reg) THEN acc
    ELSE LET r == InstanceClose(reg[i], acc.client) IN
         IF r.err # ErrNil
         THEN [log |-> Append(acc.log, i), errs |-> Append(acc.errs, i),
               client |-> r.client]
         ELSE CloseLoop_stopsAtFailure(reg, i + 1,
                  [log |-> Append(acc.log, i), errs |-> acc.errs,
                   client |-> r.client])

\* the loop of providers.Close from the i-th instance on: log (the places of
\* the instances whose Close was called), errs (the places of those whose
\* Close failed, as the wrapped errors are appended)
RECURSIVE CloseLoop(_, _, _)
CloseLoop(reg, i, acc) ==
    IF i > Len(reg) THEN acc
    ELSE LET r == InstanceClose(reg[i], acc.client) IN
         CloseLoop(reg, i + 1,
             [log |-> Append(acc.log, i),
              errs |-> IF r.err # ErrNil THEN Append(acc.errs, i) ELSE acc.errs,
              client |-> r.client])

\* providers.Close: nil, or the errors.Join of every failure
CloseAll(reg, cl) ==
    LET a == CloseLoop(reg, 1, [log |-> <<>>, errs |-> <<>>, client |-> cl]) IN
    [err |-> IF Len(a.errs) > 0 THEN ErrJoined ELSE ErrNil,
     joined |-> a.errs, log |-> a.log, client |-> a.client]

\* providers.GetProviderNames
GetProviderNames(reg) == [i \in 1..Len(reg) |-> reg[i].name]

NoRegOut == [op |-> "none", name |-> "", provider |-> 0, err |-> ErrNil,
             joined |-> <<>>, names |-> <<>>]

----------------------------------------------------------------------------
(* The parts of the state a specification leaves alone. *)

NoConfig == [Providers |-> <<>>, DefaultModel |-> <<>>, DefaultModelSettings |-> <<>>]

ProvIdle ==
    /\ client = NoClient
    /\ closed = FALSE
    /\ keyring = [u \in KeyringUsers |-> NoSecret]
    /\ downloadsDir = "unset"
    /\ now = 0
    /\ last = NoCall

SessIdle ==
    /\ pc = "off"
    /\ cfg = NoConfig
    /\ googleSettings = googleSettingsDecl
    /\ model = <<>>
    /\ modelSettings = "nil"
    /\ prompt = <<>>
    /\ lastPrompt = <<>>
    /\ retErr = ErrNil
    /\ reported = <<>>

RegIdle ==
    /\ Providers = <<GoogleInstance>>
    /\ closeLog = <<>>
    /\ regOut = NoRegOut

\* no accessor was called
NoAccOut ==
    [op |-> "none", name |-> "", defaultString |-> <<>>, defaultInt |-> 0,
     defaultBool |-> FALSE, retString |-> <<>>, retInt |-> 0, retBool |-> FALSE]

TypeIdle ==
    /\ tv = <<>>
    /\ tt = <<>>
    /\ tout = [op |-> "none", ret |-> FALSE, logged |-> FALSE]
    /\ ams = <<>>
    /\ aout = NoAccOut

\* no auth command ran
NoAuthOut ==
    [op |-> "none", provider |-> "", err |-> ErrNil, steps |-> <<>>,
     ProvidersWas |-> <<>>, secretWas |-> NoSecret, credentials |-> NoCredentials]

CmdIdle ==
    /\ files = {}
    /\ authOut = NoAuthOut

----------------------------------------------------------------------------
(* Spec: the Provider contract of GoogleProvider, its methods called in    *)
(* any order by one caller, against the secret store and the backend.      *)

\* the settings collections a caller hands to GenerateImage
CallerSettings == {<<>>, googleSettings}

\* the outcome of a call of op, before op ran: what the provider held then
Called(op) ==
    [NoCall EXCEPT !.op = op, !.wasLive = client.live, !.clientWas = client,
                   !.hadSecret = keyring["google"].found, !.afterClose = closed]

\* the caller takes the outcome of the call it made
TakeResult ==
    /\ last.op # "none"
    /\ last' = NoCall
    /\ UNCHANGED <<client, closed, keyring, downloadsDir, now>>

CallLogin(credentials, env) ==
    LET r == Login(client, credentials, env.fault) IN
    /\ last.op = "none"
    /\ client' = r.client
    /\ closed' = (closed /\ ~r.client.live)
    /\ last' = [Called("Login") EXCEPT !.err = r.err,
                              !.newClient = r.newClient, !.credentials = credentials]
    /\ UNCHANGED <<keyring, downloadsDir, now>>

CallClose ==
    LET r == Close(client) IN
    /\ last.op = "none"
    /\ client' = r.client
    /\ closed' = TRUE
    /\ last' = [Called("Close") EXCEPT !.err = r.err]
    /\ UNCHANGED <<keyring, downloadsDir, now>>

CallSaveCredentials(credentials, env) ==
    LET r == SaveCredentials(keyring, credentials, env.fault) IN
    /\ last.op = "none"
    /\ keyring' = r.keyring
    /\ last' = [Called("SaveCredentials") EXCEPT !.err = r.err,
                              !.credentials = credentials]
    /\ UNCHANGED <<client, closed, downloadsDir, now>>

CallLoadCredentials(env) ==
    LET r == LoadCredentials(keyring, env.fault) IN
    /\ last.op = "none"
    /\ last' = [Called("LoadCredentials") EXCEPT !.err = r.err,
                              !.credentials = r.credentials]
    /\ UNCHANGED <<client, closed, keyring, downloadsDir, now>>

CallDeleteCredentials(env) ==
    LET r == DeleteCredentials(keyring, env.fault) IN
    /\ last.op = "none"
    /\ keyring' = r.keyring
    /\ last' = [Called("DeleteCredentials") EXCEPT !.err = r.err]
    /\ UNCHANGED <<client, closed, downloadsDir, now>>

CallGenerateImage(modelName, promptText, settings, images, env) ==
    LET r == GenerateImage(client, keyring, downloadsDir, now, modelName,
                           promptText, settings, images, env) IN
    /\ last.op = "none"
    /\ client' = r.client
    /\ closed' = (closed /\ ~r.client.live)
    /\ downloadsDir' = r.downloadsDir
    /\ last' = [r.out EXCEPT !.afterClose = closed]
    /\ UNCHANGED <<keyring, now>>

\* a second passes
Tick ==
    /\ last.op = "none"
    /\ now < MaxClock
    /\ now' = now + 1
    /\ UNCHANGED <<client, closed, keyring, downloadsDir, last>>

Init ==
    /\ client = NoClient
    /\ closed = FALSE
    /\ keyring \in [KeyringUsers -> {NoSecret} \cup {Secret(k) : k \in Keys}]
    /\ downloadsDir = "unset"
    /\ now = 0
    /\ last = NoCall
    /\ SessIdle /\ RegIdle /\ TypeIdle /\ CmdIdle

KeyringEnvs == {NoFault, [fault |-> "keyring", failAt |-> 0]}
LoginEnvs == {NoFault, [fault |-> "newclient", failAt |-> 0]}

Next ==
    \/ /\ \E c \in CredentialsSet, e \in LoginEnvs : CallLogin(c, e)
       /\ UNCHANGED <<sessVars, regVars, typeVars, cmdVars>>
    \/ /\ CallClose
       /\ UNCHANGED <<sessVars, regVars, typeVars, cmdVars>>
    \/ /\ \E c \in CredentialsSet, e \in KeyringEnvs : CallSaveCredentials(c, e)
       /\ UNCHANGED <<sessVars, regVars, typeVars, cmdVars>>
    \/ /\ \E e \in KeyringEnvs : CallLoadCredentials(e)
       /\ UNCHANGED <<sessVars, regVars, typeVars, cmdVars>>
    \/ /\ \E e \in KeyringEnvs : CallDeleteCredentials(e)
       /\ UNCHANGED <<sessVars, regVars, typeVars, cmdVars>>
    \/ /\ \E s \in CallerSettings, images \in Responses :
            \E e \in Envs(images) :
                CallGenerateImage(GoogleModels[1], <<"a">>, s, images, e)
       /\ UNCHANGED <<sessVars, regVars, typeVars, cmdVars>>
    \/ /\ Tick
       /\ UNCHANGED <<sessVars, regVars, typeVars, cmdVars>>
    \/ /\ TakeResult
       /\ UNCHANGED <<sessVars, regVars, typeVars, cmdVars>>

Spec == Init /\ [][Next]_vars

----------------------------------------------------------------------------
(* SpecSession: the root command's interactive session (RunE of rootCmd)   *)
(* on the registry that google.go's init fills.                            *)

\* Config.GetDefaultModelSetting: [v, ok]
RECURSIVE GetDefaultModelSetting(_, _, _)
GetDefaultModelSetting(dms, name, i) ==
    IF i > Len(dms) THEN [v |-> <<>>, ok |-> FALSE]
    ELSE IF dms[i].name = name THEN [v |-> dms[i].value, ok |-> TRUE]
    ELSE GetDefaultModelSetting(dms, name, i + 1)

\* a load that stores every persisted default, of the Setting's type or not
ApplyDefaultModelSettings_unchecked(c, reg, gs) ==
    [k \in 1..Len(gs) |->
        LET d == GetDefaultModelSetting(c.DefaultModelSettings, gs[k].Name, 1)
        IN  IF d.ok THEN [gs[k] EXCEPT !.Value = d.v] ELSE gs[k]]

\* GetConfig's "apply user default model settings" on the Settings that the
\* models of the config share: a persisted default is stored if it is of
\* the Setting's type
ApplyDefaultModelSettings(c, reg, gs) ==
    IF \E i \in 1..Len(ConfigGetModels(c.Providers, reg, 1)) :
           ConfigGetModels(c.Providers, reg, 1)[i].Settings = "googleSettings"
    THEN [k \in 1..Len(gs) |->
            LET d == GetDefaultModelSetting(c.DefaultModelSettings, gs[k].Name, 1)
            IN  IF d.ok /\ IsOfType(d.v, gs[k].Type)
                THEN [gs[k] EXCEPT !.Value = d.v]
                ELSE gs[k]]
    ELSE gs

\* the first model with identifier id that the loop over GetModels finds, or 0
RECURSIVE FindModel(_, _, _)
FindModel(models, id, i) ==
    IF i > Len(models) THEN 0
    ELSE IF models[i].id = id THEN i
    ELSE FindModel(models, id, i + 1)

\* the loop "update model settings" of /models: the first model whose Name
\* equals its own composite identifier, or 0
RECURSIVE FindModelNamedAsId(_, _)
FindModelNamedAsId(models, i) ==
    IF i > Len(models) THEN 0
    ELSE IF models[i].Name = models[i].id THEN i
    ELSE FindModelNamedAsId(models, i + 1)

\* ModelSettings.HuhGroup, before the form runs: an empty Value is seeded
\* from a non-empty DefaultValue
SeedDefaults(ms) ==
    [k \in 1..Len(ms) |->
        IF ms[k].Value = <<>> /\ ms[k].DefaultValue # <<>>
        THEN [ms[k] EXCEPT !.Value = ms[k].DefaultValue]
        ELSE ms[k]]

\* whether HuhGroup makes a field for a Setting of type t
HasField(t) ==
    t \in {TInt, TFloat, TString, TBoolean} \/ HasPrefix(t, EnumPrefix)

\* whether the field HuhGroup makes for type t lets the user submit v: the
\* inputs' Validate functions, the options of the selects
FieldAccepts(t, v) ==
    IF t = TInt THEN Atoi(v).ok
    ELSE IF t = TFloat THEN ParseFloatOK(v)
    ELSE IF t = TString THEN v # <<>>
    ELSE IF t = TBoolean THEN v \in {VTrue, VFalse}
    ELSE IF HasPrefix(t, EnumPrefix)
         THEN Contains(Split(CutPrefix(t, EnumPrefix), "|"), v)
         ELSE FALSE

\* what a user types into or picks in the settings form
UserValues == {<<"1">>, <<"2">>, <<"1", ":", "1">>, <<"1", "6", ":", "9">>}

\* the collections the submitted settings form may leave behind: each
\* Setting with a field keeps its seeded Value, if the field accepts it, or
\* takes a user's value that the field accepts
SubmittedSettings(ms) ==
    {e \in [1..Len(ms) -> UserValues \cup {ms[k].Value : k \in 1..Len(ms)}] :
        \A k \in 1..Len(ms) :
            IF HasField(ms[k].Type)
            THEN FieldAccepts(ms[k].Type, e[k])
            ELSE e[k] = ms[k].Value}

WithValues(ms, e) == [k \in 1..Len(ms) |-> [ms[k] EXCEPT !.Value = e[k]]]

CmdModels   == <<"/", "m", "o", "d", "e", "l", "s">>
CmdSettings == <<"/", "s", "e", "t", "t", "i", "n", "g", "s">>
CmdExit     == <<"/", "e", "x", "i", "t">>
CmdRetry    == <<"/", "r", "e", "t", "r", "y">>

\* what a user types into the prompt form besides the four commands
UserPrompts == {<<"a">>, <<"b">>, <<"/", "x">>}

ErrNoModel == "no model is available"
ErrInvalidModel == "invalid model"
ErrGetProvider == "failed to get provider"
ErrGenerate == "failed to generate image"

\* the configs a user may have on disk
ConfigFiles ==
    {[Providers |-> ps, DefaultModel |-> dm, DefaultModelSettings |-> dms] :
        ps \in {<<>>, <<"google">>, <<"other", "google">>},
        dm \in {<<>>, <<"google", GoogleModels[3]>>, <<"gone">>},
        dms \in {<<>>,
                 <<[name |-> "number_of_images", value |-> <<"2">>]>>,
                 <<[name |-> "aspect_ratio", value |-> <<"2", ":", "1">>]>>}}

\* the settings collection that the reference modelSettings stands for
Deref(ref, gs) == IF ref = "googleSettings" THEN gs ELSE <<>>

\* RunE up to the loop: the config is loaded, the active model is chosen
Start ==
    /\ pc = "off"
    /\ LET models == ConfigGetModels(cfg.Providers, Providers, 1)
           k == FindModel(models, cfg.DefaultModel, 1)
           m == IF k # 0 THEN models[k].id
                ELSE IF Len(models) > 0 THEN models[1].id ELSE <<>>
           st == IF k # 0 THEN models[k].Settings
                 ELSE IF Len(models) > 0 THEN models[1].Settings ELSE "nil"
       IN  /\ googleSettings' = ApplyDefaultModelSettings(cfg, Providers, googleSettings)
           /\ model' = m
           /\ modelSettings' = st
           /\ IF m = <<>>
              THEN pc' = "done" /\ retErr' = ErrNoModel
              ELSE pc' = "prompt" /\ UNCHANGED retErr
    /\ reported' = <<>>
    /\ UNCHANGED <<cfg, prompt, lastPrompt, provVars>>

\* errExit of RunE, and huh.ErrUserAborted, which run() wraps with %w
ErrExit == "exit"
ErrUserAborted == "user aborted"

\* a loop that returns a user's abort as it returns other errors
LoopReturn_returnsAbort(err) ==
    IF err = ErrNil THEN [pc |-> "prompt", retErr |-> ErrNil]
    ELSE IF err = ErrExit THEN [pc |-> "done", retErr |-> ErrNil]
    ELSE [pc |-> "done", retErr |-> err]

\* the loop around run(): where RunE goes with what run() returned, and
\* what RunE returns when it ends
LoopReturn(err) ==
    IF err = ErrNil THEN [pc |-> "prompt", retErr |-> ErrNil]
    ELSE IF err = ErrExit THEN [pc |-> "done", retErr |-> ErrNil]
    ELSE IF err = ErrUserAborted THEN [pc |-> "done", retErr |-> ErrNil]
    ELSE [pc |-> "done", retErr |-> err]

\* the user aborts the prompt form
PromptAbort ==
    /\ pc = "prompt"
    /\ pc' = LoopReturn(ErrUserAborted).pc
    /\ retErr' = LoopReturn(ErrUserAborted).retErr
    /\ reported' = <<>>
    /\ UNCHANGED <<cfg, googleSettings, model, modelSettings, prompt, lastPrompt,
                   provVars>>

\* /models: the user picks the k-th model of the catalog, or aborts the form
RunModels(k, abort) ==
    /\ pc = "prompt"
    /\ prompt' = IF abort THEN CmdModels ELSE <<>>
    /\ LET models == ConfigGetModels(cfg.Providers, Providers, 1)
           u == FindModelNamedAsId(models, 1)
       IN  /\ k \in 1..Len(models)
           /\ IF abort
              THEN /\ pc' = LoopReturn(ErrUserAborted).pc
                   /\ retErr' = LoopReturn(ErrUserAborted).retErr
                   /\ UNCHANGED <<model, modelSettings>>
              ELSE /\ model' = models[k].id
                   /\ modelSettings' = IF u # 0 THEN models[u].Settings
                                       ELSE modelSettings
                   /\ UNCHANGED <<pc, retErr>>
    /\ reported' = <<>>
    /\ UNCHANGED <<cfg, googleSettings, lastPrompt, provVars>>

\* /settings: the form over the active collection is submitted with the
\* values e, or aborted
RunSettings(e, abort) ==
    /\ pc = "prompt"
    /\ modelSettings = "googleSettings"
    /\ prompt' = IF abort THEN CmdSettings ELSE <<>>
    /\ LET seeded == SeedDefaults(googleSettings) IN
       IF abort
       THEN /\ googleSettings' = seeded
            /\ pc' = LoopReturn(ErrUserAborted).pc
            /\ retErr' = LoopReturn(ErrUserAborted).retErr
       ELSE /\ e \in SubmittedSettings(seeded)
            /\ googleSettings' = WithValues(seeded, e)
            /\ UNCHANGED <<pc, retErr>>
    /\ reported' = <<>>
    /\ UNCHANGED <<cfg, model, modelSettings, lastPrompt, provVars>>

\* /exit
RunExit ==
    /\ pc = "prompt"
    /\ prompt' = CmdExit
    /\ pc' = LoopReturn(ErrExit).pc
    /\ retErr' = LoopReturn(ErrExit).retErr
    /\ reported' = <<>>
    /\ UNCHANGED <<cfg, googleSettings, model, modelSettings, lastPrompt, provVars>>

\* strings.SplitN(model, "/", 2) of an identifier: its first segment and
\* the rest
SplitN2(id) ==
    IF Len(id) <= 1 THEN id ELSE <<id[1], SubSeq(id, 2, Len(id))>>

\* where run() and the loop go with the outcome of GenerateImage: an error
\* is returned by run(), and by RunE as it is neither errExit nor a user
\* abort
AfterGenerate(out) ==
    IF out.err # ErrNil
    THEN [pc |-> "done", retErr |-> ErrGenerate]
    ELSE [pc |-> "show", retErr |-> ErrNil]

\* a test of the default case that takes no prompt for a command
IsInvalidCommand_never(p) == FALSE

\* the default case's test whether the prompt is a command
IsInvalidCommand(p) == HasPrefix(p, <<"/">>)

\* a /retry that leaves the prompt as it was entered
PromptOf_keepsCommand(text, lp) == text

\* case "/retry": prompt = lastPrompt, and on to the default case
PromptOf(text, lp) == IF text = CmdRetry THEN lp ELSE text

\* /retry and the default case: the text is a prompt, or an invalid command
RunGenerate(text, images, env) ==
    /\ pc = "prompt"
    /\ LET p     == PromptOf(text, lastPrompt)
           parts == SplitN2(model)
           pp    == GetProviderByName(Providers, parts[1])
           r     == GenerateImage(client, keyring, downloadsDir, now, parts[2][1], p,
                                  Deref(modelSettings, googleSettings), images, env)
           after == AfterGenerate(r.out)
       IN  /\ reported' = IF IsInvalidCommand(p) THEN p ELSE <<>>
           /\ IF IsInvalidCommand(p)
              THEN /\ prompt' = <<>>
                   /\ UNCHANGED <<pc, retErr, lastPrompt, provVars>>
              ELSE IF Len(parts) # 2
              THEN /\ prompt' = p
                   /\ pc' = "done"
                   /\ retErr' = ErrInvalidModel
                   /\ UNCHANGED <<lastPrompt, provVars>>
              ELSE IF pp.err # ErrNil
              THEN /\ prompt' = p
                   /\ pc' = "done"
                   /\ retErr' = ErrGetProvider
                   /\ UNCHANGED <<lastPrompt, provVars>>
              ELSE /\ prompt' = p
                   /\ client' = r.client
                   /\ closed' = (closed /\ ~r.client.live)
                   /\ downloadsDir' = r.downloadsDir
                   /\ last' = [r.out EXCEPT !.afterClose = closed]
                   /\ pc' = after.pc
                   /\ retErr' = IF after.pc = "done" THEN after.retErr ELSE retErr
                   /\ lastPrompt' = IF r.out.err = ErrNil THEN p ELSE lastPrompt
                   /\ UNCHANGED <<keyring, now>>
    /\ UNCHANGED <<cfg, googleSettings, model, modelSettings>>

\* the loop over the written files: each is printed and shown; then run()
\* returns nil and the loop clears the prompt
ShowImages ==
    /\ pc = "show"
    /\ pc' = "prompt"
    /\ prompt' = <<>>
    /\ last' = NoCall
    /\ reported' = <<>>
    /\ UNCHANGED <<cfg, googleSettings, model, modelSettings, lastPrompt, retErr,
                   client, closed, keyring, downloadsDir, now>>

\* the backend's answers during a session: no image, accepted images, an
\* image filtered upstream, an image of an unsupported type
SessionResponses ==
    { <<>>,
      <<GeneratedImage("image/png")>>,
      <<GeneratedImage("image/png"), GeneratedImage("image/jpeg")>>,
      <<GeneratedImage("image/png"), GeneratedImage("")>>,
      <<GeneratedImage("image/webp")>> }

InitSession ==
    /\ client = NoClient
    /\ closed = FALSE
    /\ keyring \in [KeyringUsers -> {NoSecret} \cup {Secret(k) : k \in Keys}]
    /\ downloadsDir = "unset"
    /\ now = 0
    /\ last = NoCall
    /\ pc = "off"
    /\ cfg \in ConfigFiles
    /\ googleSettings = googleSettingsDecl
    /\ model = <<>>
    /\ modelSettings = "nil"
    /\ prompt = <<>>
    /\ lastPrompt = <<>>
    /\ retErr = ErrNil
    /\ reported = <<>>
    /\ RegIdle /\ TypeIdle /\ CmdIdle

NextSession ==
    \/ Start /\ UNCHANGED <<regVars, typeVars, cmdVars>>
    \/ PromptAbort /\ UNCHANGED <<regVars, typeVars, cmdVars>>
    \/ /\ \E k \in 1..Len(GoogleModels), abort \in BOOLEAN : RunModels(k, abort)
       /\ UNCHANGED <<regVars, typeVars, cmdVars>>
    \/ /\ \E e \in [1..Len(googleSettings) -> UserValues], abort \in BOOLEAN :
            RunSettings(e, abort)
       /\ UNCHANGED <<regVars, typeVars, cmdVars>>
    \/ RunExit /\ UNCHANGED <<regVars, typeVars, cmdVars>>
    \/ /\ \E text \in UserPrompts \cup {CmdRetry}, images \in SessionResponses :
            \E env \in Envs(images) : RunGenerate(text, images, env)
       /\ UNCHANGED <<regVars, typeVars, cmdVars>>
    \/ ShowImages /\ UNCHANGED <<regVars, typeVars, cmdVars>>

SpecSession == InitSession /\ [][NextSession]_vars

----------------------------------------------------------------------------
(* SpecRegistry: the registry as the init functions of provider             *)
(* implementations fill it, and its operations.                             *)

ProviderNames == {"google", "other"}

\* the implementations that may register besides the GoogleProvider
OtherInstances == {OtherInstance(n, f) : n \in ProviderNames, f \in BOOLEAN}

\* Providers = append(Providers, inst), in an init function
Register(inst) ==
    /\ regOut.op = "none"
    /\ Len(Providers) < MaxProviders
    /\ inst = GoogleInstance => \A i \in 1..Len(Providers) : Providers[i] # inst
    /\ Providers' = Append(Providers, inst)
    /\ UNCHANGED <<closeLog, regOut, client, closed>>

CallGetProviderByName(name) ==
    LET r == GetProviderByName(Providers, name) IN
    /\ regOut.op = "none"
    /\ regOut' = [NoRegOut EXCEPT !.op = "GetProviderByName", !.name = name,
                                  !.provider = r.provider, !.err = r.err]
    /\ UNCHANGED <<Providers, closeLog, client, closed>>

CallGetProviderNames ==
    /\ regOut.op = "none"
    /\ regOut' = [NoRegOut EXCEPT !.op = "GetProviderNames",
                                  !.names = GetProviderNames(Providers)]
    /\ UNCHANGED <<Providers, closeLog, client, closed>>

CallCloseAll ==
    LET r == CloseAll(Providers, client) IN
    /\ regOut.op = "none"
    /\ regOut' = [NoRegOut EXCEPT !.op = "Close", !.err = r.err, !.joined = r.joined]
    /\ closeLog' = r.log
    /\ client' = r.client
    /\ closed' = (closed \/ \E i \in 1..Len(Providers) : Providers[i].kind = "google")
    /\ UNCHANGED Providers

\* the caller takes what the registry operation returned
TakeRegResult ==
    /\ regOut.op # "none"
    /\ regOut' = NoRegOut
    /\ closeLog' = <<>>
    /\ UNCHANGED <<Providers, client, closed>>

InitRegistry ==
    /\ Providers = <<>>
    /\ closeLog = <<>>
    /\ regOut = NoRegOut
    /\ ProvIdle /\ SessIdle /\ TypeIdle /\ CmdIdle

NextRegistry ==
    \/ /\ \E inst \in OtherInstances \cup {GoogleInstance} : Register(inst)
       /\ UNCHANGED <<keyring, downloadsDir, now, last, sessVars, typeVars, cmdVars>>
    \/ /\ \E name \in ProviderNames \cup {"nonexistent"} : CallGetProviderByName(name)
       /\ UNCHANGED <<keyring, downloadsDir, now, last, sessVars, typeVars, cmdVars>>
    \/ /\ CallGetProviderNames
       /\ UNCHANGED <<keyring, downloadsDir, now, last, sessVars, typeVars, cmdVars>>
    \/ /\ CallCloseAll
       /\ UNCHANGED <<keyring, downloadsDir, now, last, sessVars, typeVars, cmdVars>>
    \/ /\ TakeRegResult
       /\ UNCHANGED <<keyring, downloadsDir, now, last, sessVars, typeVars, cmdVars>>

SpecRegistry == InitRegistry /\ [][NextRegistry]_vars

----------------------------------------------------------------------------
(* SpecTypes: IsOfType applied to candidate values and type specs.         *)

\* the characters of the candidates that are enumerated in full
Alphabet == {"0", "1", "-", ".", "e", "|"}

Str3(a, b, c) == <<a, b, c>>
Str4(a, b, c, d) == <<a, b, c, d>>
Str5(a, b, c, d, e) == <<a, b, c, d, e>>

\* candidates beyond the enumerated ones
Literals ==
    { VTrue, VFalse, Str4("T", "r", "u", "e"), Str5("m", "a", "y", "b", "e"),
      Str3("1", ":", "1"), Str4("1", "6", ":", "9"), Str3("2", ":", "1"),
      Str3("3", ".", "5"), Str3("i", "n", "f"), Str4("-", "I", "n", "f"),
      Str3("n", "a", "n"), Str4("+", "n", "a", "n"),
      <<"i", "n", "f", "i", "n", "i", "t", "y">>, Str4("i", "n", "f", "i"),
      Str5("1", "e", "3", "0", "8"), Str5("2", "e", "3", "0", "8"),
      Str5("1", "e", "3", "0", "9"), Str5("0", "e", "9", "9", "9"),
      <<"1", "e", "-", "9", "9", "9">>, Str3("1", "_", "0"), Str3(" ", "1", " "),
      <<"_", "1">>, <<"1", "_">>, Str4("1", "_", "_", "0"), Str4("1", "_", ".", "5"),
      Str5("1", "e", "1", "_", "0"), Str4("1", "e", "_", "5"), <<"+", "1">>,
      <<"+">>, Str3("N", "a", "N"), Str4("1", "E", "+", "2") }

Candidates == SeqsUpTo(Alphabet, MaxLen) \cup Literals

\* type specs: the four primitive ones, enums, and unknown ones
TypeSpecs ==
    { TInt, TFloat, TString, TBoolean, TAspectRatio,
      EnumPrefix \o Str3("1", "|", "e"),
      EnumPrefix \o <<"|", "1">>,
      EnumPrefix \o <<"t", "r", "u", "e", "|">>,
      EnumPrefix \o <<"1", "|", "|", "0">>,
      EnumPrefix,
      <<>>, Str4("e", "n", "u", "m"), Str3("I", "n", "t"),
      <<"n", "u", "m", "b", "e", "r">> }

CallIsOfType(v, t) ==
    /\ tout.op = "none"
    /\ tv' = v
    /\ tt' = t
    /\ tout' = [op |-> "IsOfType", ret |-> IsOfType(v, t), logged |-> IsOfTypeLogs(t)]
    /\ UNCHANGED <<ams, aout>>

\* the caller takes what IsOfType returned
TakeTypeResult ==
    /\ tout.op # "none"
    /\ tv' = <<>>
    /\ tt' = <<>>
    /\ tout' = [op |-> "none", ret |-> FALSE, logged |-> FALSE]
    /\ UNCHANGED <<ams, aout>>

InitTypes ==
    /\ TypeIdle
    /\ ProvIdle /\ SessIdle /\ RegIdle /\ CmdIdle

NextTypes ==
    \/ /\ \E v \in Candidates, t \in TypeSpecs : CallIsOfType(v, t)
       /\ UNCHANGED <<provVars, sessVars, regVars, cmdVars>>
    \/ /\ TakeTypeResult
       /\ UNCHANGED <<provVars, sessVars, regVars, cmdVars>>

SpecTypes == InitTypes /\ [][NextTypes]_vars

----------------------------------------------------------------------------
(* SpecAccessors: GetModelSettingString, GetModelSettingBool and           *)
(* GetModelSettingInt applied to ModelSettings collections.                *)

\* the Names of the Settings of a collection, and the names looked up
SettingNames == {"a", "b"}
LookupNames == {"a", "c"}

\* the Values a Setting may hold
SettingValues ==
    { <<>>, VTrue, VFalse, <<"0", "7">>, <<"-", "3">>, Str3("1", ".", "5") }

\* the collections handed to the accessors: a nil and an empty collection
\* are both the collection of length 0, over which the loop does not run
Collections ==
    SeqsUpTo({[Name |-> n, Type |-> TString, DefaultValue |-> <<>>, Value |-> v] :
                 n \in SettingNames, v \in SettingValues}, MaxSettings)

CallGetModelSettingString(ms, name, defaultValue) ==
    /\ aout.op = "none"
    /\ ams' = ms
    /\ aout' = [NoAccOut EXCEPT !.op = "String", !.name = name,
                                !.defaultString = defaultValue,
                                !.retString = GetModelSettingString(ms, name, defaultValue)]
    /\ UNCHANGED <<tv, tt, tout>>

CallGetModelSettingBool(ms, name, defaultValue) ==
    /\ aout.op = "none"
    /\ ams' = ms
    /\ aout' = [NoAccOut EXCEPT !.op = "Bool", !.name = name,
                                !.defaultBool = defaultValue,
                                !.retBool = GetModelSettingBool(ms, name, defaultValue)]
    /\ UNCHANGED <<tv, tt, tout>>

CallGetModelSettingInt(ms, name, defaultValue) ==
    /\ aout.op = "none"
    /\ ams' = ms
    /\ aout' = [NoAccOut EXCEPT !.op = "Int", !.name = name,
                                !.defaultInt = defaultValue,
                                !.retInt = GetModelSettingInt(ms, name, defaultValue)]
    /\ UNCHANGED <<tv, tt, tout>>

\* the caller takes what the accessor returned
TakeAccResult ==
    /\ aout.op # "none"
    /\ ams' = <<>>
    /\ aout' = NoAccOut
    /\ UNCHANGED <<tv, tt, tout>>

InitAccessors ==
    /\ TypeIdle
    /\ ProvIdle /\ SessIdle /\ RegIdle /\ CmdIdle

NextAccessors ==
    \/ /\ \E ms \in Collections, n \in LookupNames, d \in {<<>>, <<"d">>} :
            CallGetModelSettingString(ms, n, d)
       /\ UNCHANGED <<provVars, sessVars, regVars, cmdVars>>
    \/ /\ \E ms \in Collections, n \in LookupNames, d \in BOOLEAN :
            CallGetModelSettingBool(ms, n, d)
       /\ UNCHANGED <<provVars, sessVars, regVars, cmdVars>>
    \/ /\ \E ms \in Collections, n \in LookupNames, d \in {0, 5} :
            CallGetModelSettingInt(ms, n, d)
       /\ UNCHANGED <<provVars, sessVars, regVars, cmdVars>>
    \/ /\ TakeAccResult
       /\ UNCHANGED <<provVars, sessVars, regVars, cmdVars>>

SpecAccessors == InitAccessors /\ [][NextAccessors]_vars

----------------------------------------------------------------------------
(* SpecFiles: GenerateImage called again and again by one caller, with the *)
(* image files that its calls leave in the output directory.               *)

\* the elements of a sequence
Range(s) == {s[i] : i \in 1..Len(s)}

\* the backend's answers: no image, one or two accepted images, an accepted
\* image before one of an unsupported type
FileResponses ==
    { <<>>,
      <<GeneratedImage("image/png")>>,
      <<GeneratedImage("image/png"), GeneratedImage("image/jpeg")>>,
      <<GeneratedImage("image/png"), GeneratedImage("image/webp")>> }

\* GenerateImage with the files it writes: os.WriteFile creates the file of
\* a path or truncates the one that is there
GenerateOnDisk(images, env) ==
    /\ CallGenerateImage(GoogleModels[1], <<"a">>, googleSettings, images, env)
    /\ files' = files \cup Range(last'.written)
    /\ UNCHANGED authOut

InitFiles ==
    /\ client = NoClient
    /\ closed = FALSE
    /\ keyring \in [KeyringUsers -> {NoSecret} \cup {Secret(k) : k \in Keys}]
    /\ downloadsDir = "unset"
    /\ now = 0
    /\ last = NoCall
    /\ SessIdle /\ RegIdle /\ TypeIdle /\ CmdIdle

NextFiles ==
    \/ /\ \E images \in FileResponses : \E e \in Envs(images) :
            GenerateOnDisk(images, e)
       /\ UNCHANGED <<sessVars, regVars, typeVars>>
    \/ /\ Tick
       /\ UNCHANGED <<sessVars, regVars, typeVars, cmdVars>>
    \/ /\ TakeResult
       /\ UNCHANGED <<sessVars, regVars, typeVars, cmdVars>>

SpecFiles == InitFiles /\ [][NextFiles]_vars

----------------------------------------------------------------------------
(* SpecAuth: the commands auth login and auth logout on the config file    *)
(* and the secret store. Every run of a command is a process of its own:   *)
(* it starts with the registry that init fills and with no client.         *)

ErrGetConfig == "failed to get config"
ErrNoProviders == "no providers are available"
ErrForm == "failed to run form"
ErrAuthLogin == "failed to login with provided credentials"
ErrSaveCredentials == "failed to save credentials"
ErrSaveConfig == "failed to save config"
ErrNoLogin == "not logged in to any provider"
ErrDeleteCredentials == "failed to delete credentials"

\* what the environment may do to one run of a command (a command returns
\* at the first failure it meets):
\*   "getconfig" the config file cannot be read
\*   "form"      the user aborts a form
\*   "newclient" genai.NewClient fails
\*   "keyring"   the secret store cannot be reached
\*   "save"      the config file cannot be created
AuthFaults == {"none", "getconfig", "form", "newclient", "keyring", "save"}

\* a filter that offers every registered provider
UnconfiguredNames_all(names, cfgProviders, i) == names

\* the loop full_provider_list from the i-th registered name on: the names
\* that the config does not list
RECURSIVE UnconfiguredNames(_, _, _)
UnconfiguredNames(names, cfgProviders, i) ==
    IF i > Len(names) THEN <<>>
    ELSE (IF Contains(cfgProviders, names[i]) THEN <<>> ELSE <<names[i]>>)
             \o UnconfiguredNames(names, cfgProviders, i + 1)

\* the loop that fills newProviders from the i-th configured provider on
RECURSIVE RemoveNamed(_, _, _)
RemoveNamed(cfgProviders, name, i) ==
    IF i > Len(cfgProviders) THEN <<>>
    ELSE (IF cfgProviders[i] # name THEN <<cfgProviders[i]>> ELSE <<>>)
             \o RemoveNamed(cfgProviders, name, i + 1)

\* a command that did nothing yet, on the config c and the secret store kr
AuthNothing(c, kr) ==
    [err |-> ErrNil, provider |-> "", steps |-> <<>>, Providers |-> c.Providers,
     keyring |-> kr]

\* a login that stores the credentials without authenticating
AuthLogin_noLogin(c, kr, reg, choice, credentials, fault) ==
    LET names == UnconfiguredNames(GetProviderNames(reg), c.Providers, 1)
        save  == SaveCredentials(kr, credentials, fault)
        r0    == AuthNothing(c, kr)
    IN  IF fault = "getconfig" THEN [r0 EXCEPT !.err = ErrGetConfig]
        ELSE IF Len(names) = 0 THEN [r0 EXCEPT !.err = ErrNoProviders]
        ELSE IF fault = "form" THEN [r0 EXCEPT !.err = ErrForm]
        ELSE IF save.err # ErrNil
        THEN [r0 EXCEPT !.err = ErrSaveCredentials, !.provider = names[choice],
                        !.steps = <<"SaveCredentials">>]
        ELSE [r0 EXCEPT !.provider = names[choice],
                        !.steps = <<"SaveCredentials", "Save">>,
                        !.keyring = save.keyring,
                        !.Providers = Append(c.Providers, names[choice])]

\* authLoginCmd.RunE, where the user picks the choice-th offered provider and
\* enters credentials: [err, provider (the selected name), steps (the
\* provider's methods and the config's Save, as called), Providers (the
\* config file's list afterwards), keyring]. The provider's methods are the
\* GoogleProvider's
AuthLogin(c, kr, reg, choice, credentials, fault) ==
    LET names == UnconfiguredNames(GetProviderNames(reg), c.Providers, 1)
        pp    == GetProviderByName(reg, names[choice])
        login == Login(NoClient, credentials, fault)
        save  == SaveCredentials(kr, credentials, fault)
        r0    == AuthNothing(c, kr)
    IN  IF fault = "getconfig" THEN [r0 EXCEPT !.err = ErrGetConfig]
        ELSE IF Len(names) = 0 THEN [r0 EXCEPT !.err = ErrNoProviders]
        ELSE IF fault = "form" THEN [r0 EXCEPT !.err = ErrForm]
        ELSE IF pp.err # ErrNil
        THEN [r0 EXCEPT !.err = ErrGetProvider, !.provider = names[choice]]
        ELSE IF login.err # ErrNil
        THEN [r0 EXCEPT !.err = ErrAuthLogin, !.provider = names[choice],
                        !.steps = <<"Login">>]
        ELSE IF save.err # ErrNil
        THEN [r0 EXCEPT !.err = ErrSaveCredentials, !.provider = names[choice],
                        !.steps = <<"Login", "SaveCredentials">>]
        ELSE IF fault = "save"
        THEN [r0 EXCEPT !.err = ErrSaveConfig, !.provider = names[choice],
                        !.steps = <<"Login", "SaveCredentials", "Save">>,
                        !.keyring = save.keyring]
        ELSE [r0 EXCEPT !.provider = names[choice],
                        !.steps = <<"Login", "SaveCredentials", "Save">>,
                        !.keyring = save.keyring,
                        !.Providers = Append(c.Providers, names[choice])]

\* a logout that saves the config before it deletes the credentials
AuthLogout_savesFirst(c, kr, reg, choice, fault) ==
    LET pp  == GetProviderByName(reg, c.Providers[choice])
        del == DeleteCredentials(kr, fault)
        r0  == AuthNothing(c, kr)
    IN  IF fault = "getconfig" THEN [r0 EXCEPT !.err = ErrGetConfig]
        ELSE IF Len(c.Providers) = 0 THEN [r0 EXCEPT !.err = ErrNoLogin]
        ELSE IF fault = "form" THEN [r0 EXCEPT !.err = ErrForm]
        ELSE IF pp.err # ErrNil
        THEN [r0 EXCEPT !.err = ErrGetProvider, !.provider = c.Providers[choice]]
        ELSE IF fault = "save"
        THEN [r0 EXCEPT !.err = ErrSaveConfig, !.provider = c.Providers[choice],
                        !.steps = <<"Save">>]
        ELSE [r0 EXCEPT !.err = IF del.err # ErrNil THEN ErrDeleteCredentials
                                 ELSE ErrNil,
                        !.provider = c.Providers[choice],
                        !.steps = <<"Save", "DeleteCredentials">>,
                        !.keyring = del.keyring,
                        !.Providers = RemoveNamed(c.Providers, c.Providers[choice], 1)]

\* authLogoutCmd.RunE, where the user picks the choice-th configured provider
AuthLogout(c, kr, reg, choice, fault) ==
    LET pp  == GetProviderByName(reg, c.Providers[choice])
        del == DeleteCredentials(kr, fault)
        r0  == AuthNothing(c, kr)
    IN  IF fault = "getconfig" THEN [r0 EXCEPT !.err = ErrGetConfig]
        ELSE IF Len(c.Providers) = 0 THEN [r0 EXCEPT !.err = ErrNoLogin]
        ELSE IF fault = "form" THEN [r0 EXCEPT !.err = ErrForm]
        ELSE IF pp.err # ErrNil
        THEN [r0 EXCEPT !.err = ErrGetProvider, !.provider = c.Providers[choice]]
        ELSE IF del.err # ErrNil
        THEN [r0 EXCEPT !.err = ErrDeleteCredentials, !.provider = c.Providers[choice],
                        !.steps = <<"DeleteCredentials">>]
        ELSE IF fault = "save"
        THEN [r0 EXCEPT !.err = ErrSaveConfig, !.provider = c.Providers[choice],
                        !.steps = <<"DeleteCredentials", "Save">>,
                        !.keyring = del.keyring]
        ELSE [r0 EXCEPT !.provider = c.Providers[choice],
                        !.steps = <<"DeleteCredentials", "Save">>,
                        !.keyring = del.keyring,
                        !.Providers = RemoveNamed(c.Providers, c.Providers[choice], 1)]

\* what a run of a command leaves: the config file, the secret store, and
\* the record of the run
AuthDone(op, r, credentials) ==
    /\ cfg' = [cfg EXCEPT !.Providers = r.Providers]
    /\ keyring' = r.keyring
    /\ authOut' = [op |-> op, provider |-> r.provider, err |-> r.err,
                   steps |-> r.steps, ProvidersWas |-> cfg.Providers,
                   secretWas |-> keyring["google"], credentials |-> credentials]
    /\ UNCHANGED <<client, closed, downloadsDir, now, last, pc, googleSettings, model,
                   modelSettings, prompt, lastPrompt, retErr, reported, files>>

CallAuthLogin(choice, credentials, fault) ==
    /\ authOut.op = "none"
    /\ choice \in 1..Len(UnconfiguredNames(GetProviderNames(Providers), cfg.Providers, 1))
          \/ choice = 1
    /\ AuthDone("login",
                AuthLogin(cfg, keyring, Providers, choice, credentials, fault),
                credentials)

CallAuthLogout(choice, fault) ==
    /\ authOut.op = "none"
    /\ choice \in 1..Len(cfg.Providers) \/ choice = 1
    /\ AuthDone("logout", AuthLogout(cfg, keyring, Providers, choice, fault),
                NoCredentials)

\* the command's process has ended
TakeAuthResult ==
    /\ authOut.op # "none"
    /\ authOut' = NoAuthOut
    /\ UNCHANGED <<provVars, sessVars, files>>

\* the provider lists of the config files a user may have: a provider named
\* other is one that this build does not register
AuthConfigs ==
    {[NoConfig EXCEPT !.Providers = ps] :
        ps \in {<<>>, <<"google">>, <<"other">>, <<"other", "google">>,
                <<"google", "other">>}}

InitAuth ==
    /\ client = NoClient
    /\ closed = FALSE
    /\ keyring \in [KeyringUsers -> {NoSecret} \cup {Secret(k) : k \in Keys}]
    /\ downloadsDir = "unset"
    /\ now = 0
    /\ last = NoCall
    /\ pc = "off"
    /\ cfg \in AuthConfigs
    /\ googleSettings = googleSettingsDecl
    /\ model = <<>>
    /\ modelSettings = "nil"
    /\ prompt = <<>>
    /\ lastPrompt = <<>>
    /\ retErr = ErrNil
    /\ reported = <<>>
    /\ RegIdle /\ TypeIdle /\ CmdIdle

NextAuth ==
    \/ /\ \E choice \in 1..MaxProviders, k \in Keys, f \in AuthFaults :
            CallAuthLogin(choice, Credentials(k), f)
       /\ UNCHANGED <<regVars, typeVars>>
    \/ /\ \E choice \in 1..MaxProviders, f \in AuthFaults \ {"newclient"} :
            CallAuthLogout(choice, f)
       /\ UNCHANGED <<regVars, typeVars>>
    \/ /\ TakeAuthResult
       /\ UNCHANGED <<regVars, typeVars>>

SpecAuth == InitAuth /\ [][NextAuth]_vars

----------------------------------------------------------------------------
(* The claims. *)

\* the errors that the environment of a call causes: the secret store, the
\* client's creation, the backend, the downloads directory, a file's write
EnvErrors == {ErrNotLoggedIn, ErrLogin, ErrBackend, ErrOutDir, ErrWrite}

\* C1 (SpecSession): when GenerateImage returns an error for a prompt, the
\* session does not end and the root command does not return an error: the
\* loop awaits the next prompt.
C1_SessionSurvivesGenerateError ==
    (last.op = "GenerateImage" /\ last.err # ErrNil)
        => (pc # "done" /\ retErr = ErrNil)

\* C2 (Spec): GenerateImage on a provider without a live client, while the
\* secret store holds no credentials, returns "not logged in", calls neither
\* genai.NewClient nor GenerateImages, writes no file, and leaves the
\* provider without a client.
C2_NotLoggedInTouchesNothing ==
    (last.op = "GenerateImage" /\ ~last.wasLive /\ ~last.hadSecret)
        => /\ last.err = ErrNotLoggedIn
           /\ ~last.newClient
           /\ ~last.generate
           /\ last.written = <<>>
           /\ last.filePaths = <<>>
           /\ client = NoClient

C2_Witness ==
    /\ last.op = "GenerateImage"
    /\ ~last.wasLive
    /\ ~last.hadSecret
    /\ last.err = ErrNotLoggedIn
    /\ Len(last.images) > 0

\* the images of a response that were accepted, and those filtered upstream
Accepted(images) == {i \in 1..Len(images) : IsAccepted(images[i])}
Filtered(images) == {i \in 1..Len(images) : IsFiltered(images[i])}

\* C3 (Spec): when the backend's response holds accepted images and images
\* filtered upstream (and the environment does not fail the call), the
\* filtered ones are skipped: one file is written for each accepted image
\* and the call returns exactly those paths and no error.
C3_FilteredImagesAreSkipped ==
    (/\ last.op = "GenerateImage"
     /\ last.generate
     /\ last.err \notin EnvErrors
     /\ Accepted(last.images) # {}
     /\ Filtered(last.images) # {}
     /\ Accepted(last.images) \cup Filtered(last.images) = 1..Len(last.images))
        => /\ last.err = ErrNil
           /\ Len(last.filePaths) = Cardinality(Accepted(last.images))
           /\ last.written = last.filePaths

\* C4 (Spec): if an image of the backend's response has a content type
\* other than image/png, image/jpeg and image/gif, the call returns an error
\* and no file path, also for the earlier images of a supported type.
C4_UnsupportedTypeFailsTheCall ==
    (/\ last.op = "GenerateImage"
     /\ last.generate
     /\ last.err # ErrBackend
     /\ \E i \in 1..Len(last.images) :
            last.images[i].MIMEType \notin SupportedMimeTypes)
        => (last.err # ErrNil /\ last.filePaths = <<>>)

C4_Witness ==
    /\ last.op = "GenerateImage"
    /\ Len(last.images) = 2
    /\ last.images[1].MIMEType = "image/png"
    /\ last.images[2].MIMEType = "image/webp"
    /\ last.err = ErrUnsupported
    /\ Len(last.written) = 1
    /\ last.filePaths = <<>>

\* C5 (Spec): a Login on a provider that holds a live client returns nil,
\* does not call genai.NewClient, and leaves the client as it was, whatever
\* the credentials are.
C5_LoginIsIdempotent ==
    (last.op = "Login" /\ last.wasLive)
        => /\ last.err = ErrNil
           /\ ~last.newClient
           /\ client = last.clientWas

C5_Witness ==
    /\ last.op = "Login"
    /\ last.wasLive
    /\ last.credentials.has_api_key
    /\ last.credentials.api_key # client.APIKey
    /\ last.err = ErrNil

\* C6 (Spec): Close returns nil and leaves the provider without a client in
\* every state of the provider; and a GenerateImage on a provider without a
\* client (so after a Close) makes a client from the stored credentials,
\* unless the secret store or the client's creation fails.
C6_CloseIsTotalAndReopens ==
    /\ last.op = "Close" => (last.err = ErrNil /\ client = NoClient)
    /\ (/\ last.op = "GenerateImage"
        /\ ~last.wasLive
        /\ last.hadSecret
        /\ last.err \notin {ErrNotLoggedIn, ErrLogin})
           => /\ last.newClient
              /\ client = Client(keyring["google"].secret)

\* a GenerateImage that followed a Close of a live client made a new client
C6_Witness ==
    /\ last.op = "GenerateImage"
    /\ last.afterClose
    /\ ~last.wasLive
    /\ last.newClient
    /\ client.live

\* C7 (Spec): DeleteCredentials returns nil when the secret store (which
\* can be reached) holds no entry for the provider.
C7_DeleteAbsentSucceeds ==
    (last.op = "DeleteCredentials" /\ ~last.hadSecret /\ last.err # ErrKeyring)
        => last.err = ErrNil

\* C8 (SpecRegistry): GetProviderByName(name) returns the first registered
\* provider whose name is name, with a nil error, when there is one, and a
\* nil provider with "provider not found" when there is none; never a nil
\* provider with a nil error.
C8_LookupFindsFirstOrFails ==
    regOut.op = "GetProviderByName" =>
        LET named == {i \in 1..Len(Providers) : Providers[i].name = regOut.name} IN
        /\ named # {} =>
              /\ regOut.err = ErrNil
              /\ regOut.provider \in named
              /\ \A i \in named : regOut.provider <= i
        /\ named = {} => (regOut.err = ErrProviderNotFound /\ regOut.provider = 0)
        /\ ~(regOut.provider = 0 /\ regOut.err = ErrNil)

\* two providers of the name that was looked up are registered
C8_Witness ==
    /\ regOut.op = "GetProviderByName"
    /\ Cardinality({i \in 1..Len(Providers) : Providers[i].name = regOut.name}) >= 2
    /\ regOut.provider = 1

\* C9 (SpecRegistry): providers.Close calls Close on every registered
\* provider once, in registration order, whatever failed before; it returns
\* nil iff every Close succeeded, and else one error that joins the failure
\* of every provider whose Close failed.
C9_CloseAllClosesAll ==
    regOut.op = "Close" =>
        LET failing == {i \in 1..Len(Providers) :
                            Providers[i].kind # "google" /\ Providers[i].closeFails}
        IN  /\ closeLog = [i \in 1..Len(Providers) |-> i]
            /\ (regOut.err = ErrNil) <=> (failing = {})
            /\ {regOut.joined[k] : k \in 1..Len(regOut.joined)} = failing
            /\ Len(regOut.joined) = Cardinality(failing)

\* a provider whose Close fails is registered before one whose Close succeeds
C9_Witness ==
    /\ regOut.op = "Close"
    /\ Len(Providers) >= 2
    /\ Providers[1].closeFails
    /\ ~Providers[2].closeFails
    /\ closeLog = [i \in 1..Len(Providers) |-> i]
    /\ regOut.err = ErrJoined

\* The reference of the settings grammar, stated over the whole string
\* rather than by a scan.

\* v without its sign
Unsigned(v) == IF Len(v) >= 1 /\ v[1] \in {"+", "-"} THEN Tail(v) ELSE v

LowerAll(v) == [i \in 1..Len(v) |-> Lower(v[i])]

IsDigits(s) == Len(s) >= 1 /\ \A i \in 1..Len(s) : s[i] \in Digits

\* an integer: an optional sign and one or more digits
RefInt(v) == IsDigits(Unsigned(v))

\* an underscore stands between two digits
RefUnderscores(v) ==
    \A i \in 1..Len(v) :
        v[i] = "_" => (i > 1 /\ i < Len(v) /\ v[i-1] \in Digits /\ v[i+1] \in Digits)

IsNotUnderscore(c) == c # "_"
IsDigit(c) == c \in Digits

\* the mantissa m (digits and at most one point) times ten to the x is
\* below the least number that rounds to an infinity, 1.797...e308
RefInRange(m, x) ==
    LET point    == {i \in 1..Len(m) : m[i] = "."}
        before   == IF point = {} THEN Len(m) ELSE (CHOOSE i \in point : TRUE) - 1
        digits   == SelectSeq(m, IsDigit)
        nonzero  == {i \in 1..Len(digits) : digits[i] # "0"}
    IN  nonzero # {} =>
            LET lead  == CHOOSE i \in nonzero : \A j \in nonzero : i <= j
                place == before - (lead - 1) + x
                two   == DigitVal(digits[lead]) * 10
                           + (IF lead < Len(digits) THEN DigitVal(digits[lead + 1]) ELSE 0)
            IN  place < 309 \/ (place = 309 /\ two < 18)

\* a floating-point number: an infinity or a NaN by name, or a decimal
\* mantissa with an optional decimal exponent, in the range of a float64
RefFloat(v) ==
    LET u == LowerAll(Unsigned(v))
        p == SelectSeq(u, IsNotUnderscore)
        es == {i \in 1..Len(p) : p[i] = "e"}
    IN  \/ u \in {<<"i","n","f">>, <<"i","n","f","i","n","i","t","y">>}
        \/ LowerAll(v) = <<"n","a","n">>
        \/ /\ RefUnderscores(v)
           /\ Cardinality(es) <= 1
           /\ LET e == IF es = {} THEN Len(p) + 1 ELSE CHOOSE i \in es : TRUE
                  m == SubSeq(p, 1, e - 1)
                  x == SubSeq(p, e + 1, Len(p))
              IN  /\ \A i \in 1..Len(m) : m[i] \in Digits \cup {"."}
                  /\ Cardinality({i \in 1..Len(m) : m[i] = "."}) <= 1
                  /\ \E i \in 1..Len(m) : m[i] \in Digits
                  /\ es # {} => IsDigits(Unsigned(x))
                  /\ RefInRange(m, IF es = {} THEN 0
                                   ELSE LET n == Accumulate(Unsigned(x), 1, 0)
                                        IN  IF x[1] = "-" THEN 0 - n ELSE n)

\* v is a variant of the list: it holds no "|" and stands in the list
\* between two "|" or the list's ends; the empty list has no variant
RefEnum(v, list) ==
    /\ list # <<>>
    /\ \A i \in 1..Len(v) : v[i] # "|"
    /\ \E i \in 1..(Len(list) + 1) :
          /\ i + Len(v) - 1 <= Len(list)
          /\ SubSeq(list, i, i + Len(v) - 1) = v
          /\ i = 1 \/ list[i-1] = "|"
          /\ i + Len(v) - 1 = Len(list) \/ list[i + Len(v)] = "|"

RefIsOfType(v, t) ==
    CASE t = TInt     -> RefInt(v)
      [] t = TFloat   -> RefFloat(v)
      [] t = TString  -> TRUE
      [] t = TBoolean -> v \in {VTrue, VFalse}
      [] OTHER -> HasPrefix(t, EnumPrefix) /\ RefEnum(v, CutPrefix(t, EnumPrefix))

\* C10 (SpecTypes): for every candidate v and type spec t, IsOfType(v, t) is
\* what the grammar says: an integer for "int", a floating-point number for
\* "float", anything for "string", "true" or "false" for "boolean", one of
\* the variants for "enum:a|b|...", and false for any other t.
C10_IsOfTypeMatchesGrammar ==
    tout.op = "IsOfType" => (tout.ret <=> RefIsOfType(tv, tt))

\* IsOfType is the grammar's reference wherever the enum has a variant list
IsOfTypeMatchesGrammarOfNonEmptyLists ==
    (tout.op = "IsOfType" /\ tt # EnumPrefix) => (tout.ret <=> RefIsOfType(tv, tt))

\* C11 (SpecTypes): for the enum type spec with an empty variant list,
\* "enum:", IsOfType(v, t) is false for every candidate v, the empty string
\* included.
C11_EmptyEnumAcceptsNothing ==
    (tout.op = "IsOfType" /\ tt = EnumPrefix) => ~tout.ret

\* the places of the Settings of ams that have the name looked up
Matching == {i \in 1..Len(ams) : ams[i].Name = aout.name}
FirstMatching == CHOOSE i \in Matching : \A j \in Matching : i <= j

\* C12 (SpecAccessors): on a collection without a Setting of the name, the
\* empty collection included, each of the three accessors returns the
\* default it was given; on a collection with such a Setting,
\* GetModelSettingString returns the Value of the first one, also when it
\* is empty.
C12_AccessorsDefaultWhenAbsent ==
    /\ (aout.op = "String" /\ Matching = {}) => aout.retString = aout.defaultString
    /\ (aout.op = "Int" /\ Matching = {}) => aout.retInt = aout.defaultInt
    /\ (aout.op = "Bool" /\ Matching = {}) => aout.retBool = aout.defaultBool
    /\ (aout.op = "String" /\ Matching # {})
          => aout.retString = ams[FirstMatching].Value

\* the first of two Settings of the name holds the empty Value
C12_Witness ==
    /\ aout.op = "String"
    /\ Cardinality(Matching) = 2
    /\ ams[1].Value = <<>>
    /\ ams[2].Value # <<>>
    /\ aout.defaultString # <<>>
    /\ aout.retString = <<>>

\* the number that the digits s write, from the last digit backwards
RECURSIVE RefDecimal(_)
RefDecimal(s) ==
    IF s = <<>> THEN 0
    ELSE DigitVal(s[Len(s)]) + 10 * RefDecimal(SubSeq(s, 1, Len(s) - 1))

RefIntValue(v) ==
    IF v[1] = "-" THEN 0 - RefDecimal(Unsigned(v)) ELSE RefDecimal(Unsigned(v))

\* C13 (SpecAccessors): GetModelSettingInt returns the integer that the
\* Value of the matching Setting writes when it writes one, and the default
\* it was given when that Value is empty or no integer.
C13_IntParsedOrDefault ==
    (aout.op = "Int" /\ Matching # {}) =>
        LET v == ams[FirstMatching].Value IN
        aout.retInt = IF RefInt(v) THEN RefIntValue(v) ELSE aout.defaultInt

\* a Value that is no integer gave the default, which is not 0
C13_Witness ==
    /\ aout.op = "Int"
    /\ Matching # {}
    /\ ams[FirstMatching].Value = Str3("1", ".", "5")
    /\ aout.defaultInt = 5
    /\ aout.retInt = 5

\* C14 (SpecAccessors): GetModelSettingBool returns true when the Value of
\* the matching Setting is "true", and the default it was given for any
\* other Value and when no Setting matches.
C14_BoolTrueOrDefault ==
    aout.op = "Bool" =>
        aout.retBool = IF Matching # {} /\ ams[FirstMatching].Value = VTrue
                       THEN TRUE
                       ELSE aout.defaultBool

\* C15 (SpecSession): when a generation reaches the backend, each setting
\* that GenerateImage reads whose Value is empty or not of the Setting's
\* type is sent with the Setting's DefaultValue: a generation before any
\* edit of the settings sends aspect_ratio "1:1" and number_of_images 1.
C15_InvalidValuesSentAsDefaults ==
    (last.op = "GenerateImage" /\ last.generate) =>
        LET st == Deref(modelSettings, googleSettings) IN
        \A k \in 1..Len(st) :
            (st[k].Value = <<>> \/ ~IsOfType(st[k].Value, st[k].Type)) =>
                /\ st[k].Name = "aspect_ratio"
                      => last.sent.AspectRatio = st[k].DefaultValue
                /\ st[k].Name = "number_of_images"
                      => last.sent.NumberOfImages = RefIntValue(st[k].DefaultValue)

\* a step of the session in which the user enters /exit or aborts a form
ExitsOrAborts ==
    \/ RunExit
    \/ PromptAbort
    \/ \E k \in 1..Len(GoogleModels) : RunModels(k, TRUE)
    \/ \E e \in [1..Len(googleSettings) -> UserValues] : RunSettings(e, TRUE)

\* C16 (SpecSession): after /exit, and after the user aborts the prompt
\* form, the model form or the settings form, the root command has
\* returned, without an error and without a provider operation; and once
\* it has returned no prompt is read and no generation is started.
C16_ExitIsTerminalAndClean ==
    /\ [][ExitsOrAborts => (pc' = "done" /\ retErr' = ErrNil /\ UNCHANGED provVars)]_vars
    /\ [][pc # "done"]_vars

\* the session ended at an aborted settings form
C16_Witness ==
    /\ pc = "done"
    /\ prompt = CmdSettings
    /\ retErr = ErrNil

\* the prompts that start with "/" and are none of the four commands
InvalidCommands ==
    {p \in UserPrompts : HasPrefix(p, <<"/">>)} \ {CmdModels, CmdSettings, CmdExit, CmdRetry}

\* C17 (SpecSession): a prompt that starts with "/" and is none of /models,
\* /settings, /exit, /retry is reported as an invalid command; no provider
\* operation is invoked, the active model, the active settings collection
\* and the last prompt stay as they were, and the session awaits the next
\* prompt.
C17_InvalidCommandChangesNothing ==
    [][(\E p \in InvalidCommands : RunGenerate(p, <<>>, NoFault))
          => /\ \E p \in InvalidCommands : reported' = p
             /\ pc' = "prompt"
             /\ UNCHANGED <<model, modelSettings, googleSettings, lastPrompt, cfg,
                            retErr, provVars>>]_vars

\* an invalid command was reported after a successful generation
C17_Witness ==
    /\ reported \in InvalidCommands
    /\ pc = "prompt"
    /\ lastPrompt # <<>>
    /\ client.live

\* a step of the session in which the user enters /retry
Retries ==
    \E images \in SessionResponses :
        \E env \in Envs(images) : RunGenerate(CmdRetry, images, env)

\* C18 (SpecSession): /retry calls GenerateImage with the last prompt, which
\* is the prompt of the latest generation that succeeded, or the empty
\* string when none has; what reaches the backend is that prompt, the
\* active model and the values of the active settings. The last prompt
\* changes only when a generation has succeeded, to its prompt.
C18_RetryResubmitsLastPrompt ==
    /\ [][Retries =>
            /\ last'.op = "GenerateImage"
            /\ prompt' = lastPrompt
            /\ last'.generate =>
                  LET st == Deref(modelSettings, googleSettings) IN
                  /\ last'.sent.prompt = lastPrompt
                  /\ <<model[1], last'.sent.model>> = model
                  /\ last'.sent.NumberOfImages
                        = GetModelSettingInt(st, "number_of_images", 1)
                  /\ last'.sent.AspectRatio
                        = GetModelSettingString(st, "aspect_ratio", <<"1", ":", "1">>)]_vars
    /\ [][lastPrompt' # lastPrompt =>
            /\ last'.op = "GenerateImage"
            /\ last'.err = ErrNil
            /\ lastPrompt' = prompt']_vars

\* a /retry before any generation succeeded sent the empty prompt to the
\* backend
C18_Witness ==
    /\ last.op = "GenerateImage"
    /\ last.generate
    /\ last.sent.prompt = <<>>
    /\ lastPrompt = <<>>
    /\ prompt = <<>>

\* the catalog of the session, and the place of the active model in it
Catalog == ConfigGetModels(cfg.Providers, Providers, 1)
ActiveModel == FindModel(Catalog, model, 1)

RECURSIVE RefGetModels(_, _)
RefGetModels(cfgProviders, reg) ==
    IF cfgProviders = <<>> THEN <<>>
    ELSE (IF \E i \in 1..Len(reg) : reg[i].name = Head(cfgProviders)
          THEN ModelsOf(reg[CHOOSE i \in 1..Len(reg) :
                                /\ reg[i].name = Head(cfgProviders)
                                /\ \A j \in 1..(i - 1) : reg[j].name # Head(cfgProviders)])
          ELSE <<>>)
         \o RefGetModels(Tail(cfgProviders), reg)

\* what the start of the session leaves, given the catalog it should see
StartsWith(catalog) ==
    IF catalog = <<>>
    THEN pc' = "done" /\ retErr' = ErrNoModel /\ UNCHANGED <<prompt, provVars>>
    ELSE /\ pc' = "prompt"
         /\ model' = IF FindModel(catalog, cfg.DefaultModel, 1) # 0
                     THEN cfg.DefaultModel
                     ELSE catalog[1].id

\* C20 (SpecSession): at the start of the session the active model is the
\* configured default model when it is the identifier "<provider>/<model>"
\* of a model of a configured provider, and else the first model of the
\* first configured provider; when the configured providers have no model
\* the root command returns "no model is available" and reads no prompt.
C20_InitialModel ==
    [][Start => StartsWith(RefGetModels(cfg.Providers, Providers))]_vars

\* the same where every configured provider is registered
InitialModelWhereProvidersResolve ==
    [][(Start /\ \A i \in 1..Len(cfg.Providers) :
                    \E j \in 1..Len(Providers) : Providers[j].name = cfg.Providers[i])
          => StartsWith(RefGetModels(cfg.Providers, Providers))]_vars

\* the Settings of the k-th model of the Google provider's catalog, given
\* what googleSettings' pointers point to
CatalogSettings(k, gs) == Deref(ModelsOf(GoogleInstance)[k].Settings, gs)

\* C22 (SpecSession): the models returned by GetModels are immutable catalog
\* entries: no step of the program (loading the config with the user's
\* default settings, rendering or editing /settings, generating) changes
\* the Settings of a catalog model, and an edit of the active model's
\* settings changes the settings of no other model.
C22_CatalogModelsAreImmutable ==
    [][\A k \in 1..Len(GoogleModels) :
          CatalogSettings(k, googleSettings') = CatalogSettings(k, googleSettings)]_vars

\* the part of C22 about the other models alone: a submitted /settings form
\* leaves the Settings of every model but the active one as they were
SettingsEditLeavesOtherModels ==
    [][(\E e \in [1..Len(googleSettings) -> UserValues] : RunSettings(e, FALSE))
          => \A k \in 1..Len(GoogleModels) :
                Catalog[k].id # model
                    => CatalogSettings(k, googleSettings')
                           = CatalogSettings(k, googleSettings)]_vars

C24_CatalogOfEveryResolvingProvider ==
    ConfigGetModels(cfg.Providers, Providers, 1) = RefGetModels(cfg.Providers, Providers)

\* the same where every configured provider is registered
CatalogWhereProvidersResolve ==
    (\A i \in 1..Len(cfg.Providers) :
        \E j \in 1..Len(Providers) : Providers[j].name = cfg.Providers[i])
        => C24_CatalogOfEveryResolvingProvider

\* C25 (SpecFiles): every accepted image is written as a new file: the path
\* written for an image differs from the path of every other image of the
\* same GenerateImage call and from the paths written by every earlier
\* call, two calls within one clock second included, so that no image file
\* is overwritten; the returned list holds one path per image, in generation
\* order.
C25_EveryImageIsANewFile ==
    [][(last.op = "none" /\ last'.op = "GenerateImage") =>
          LET w == last'.written IN
          /\ \A i, j \in 1..Len(w) : i # j => w[i] # w[j]
          /\ \A i \in 1..Len(w) : w[i] \notin files
          /\ last'.err = ErrNil =>
                /\ last'.filePaths = w
                /\ Len(w) = Len(last'.images)
                /\ \A i \in 1..Len(w) :
                      /\ w[i].index = i - 1
                      /\ w[i].ext = ExtOf(last'.images[i].MIMEType)]_vars

\* the same for the files of earlier clock seconds only
EveryImageIsNewAmongOtherSeconds ==
    [][(last.op = "none" /\ last'.op = "GenerateImage") =>
          LET w == last'.written IN
          /\ \A i, j \in 1..Len(w) : i # j => w[i] # w[j]
          /\ \A i \in 1..Len(w) : w[i] \notin {f \in files : f.time # now}
          /\ last'.err = ErrNil =>
                /\ last'.filePaths = w
                /\ Len(w) = Len(last'.images)
                /\ \A i \in 1..Len(w) :
                      /\ w[i].index = i - 1
                      /\ w[i].ext = ExtOf(last'.images[i].MIMEType)]_vars

\* no name stands twice in the list
NoDuplicates(list) == \A i, j \in 1..Len(list) : i # j => list[i] # list[j]

\* C21 (SpecAuth): after any sequence of auth login and auth logout commands
\* from a config whose provider list has no duplicate names, the saved
\* provider list has no duplicate names: a successful login appends exactly
\* the selected provider, which the list did not hold, and a successful
\* logout removes the selected provider and keeps the others in their order.
C21_ProviderListHasNoDuplicates ==
    /\ NoDuplicates(cfg.Providers)
    /\ (authOut.op = "login" /\ authOut.err = ErrNil) =>
          /\ \A i \in 1..Len(authOut.ProvidersWas) :
                authOut.ProvidersWas[i] # authOut.provider
          /\ cfg.Providers = Append(authOut.ProvidersWas, authOut.provider)
    /\ (authOut.op = "logout" /\ authOut.err = ErrNil) =>
          \E i \in 1..Len(authOut.ProvidersWas) :
              /\ authOut.ProvidersWas[i] = authOut.provider
              /\ cfg.Providers = SubSeq(authOut.ProvidersWas, 1, i - 1)
                      \o SubSeq(authOut.ProvidersWas, i + 1, Len(authOut.ProvidersWas))

\* a login appended google to a list that held another provider
C21_Witness ==
    /\ authOut.op = "login"
    /\ authOut.err = ErrNil
    /\ authOut.ProvidersWas = <<"other">>
    /\ cfg.Providers = <<"other", "google">>

\* C26 (SpecAuth): auth login authenticates (Login), then persists the
\* credentials (SaveCredentials), then appends the provider to the config
\* and saves it; if Login fails neither the secret store nor the saved
\* config changes, if SaveCredentials fails the saved config is unchanged,
\* and the saved config gains a provider only if its credentials were
\* authenticated and stored.
C26_LoginAuthenticatesStoresThenSaves ==
    authOut.op = "login" =>
        /\ authOut.steps \in {<<>>, <<"Login">>, <<"Login", "SaveCredentials">>,
                               <<"Login", "SaveCredentials", "Save">>}
        /\ authOut.err = ErrAuthLogin =>
              /\ keyring["google"] = authOut.secretWas
              /\ cfg.Providers = authOut.ProvidersWas
        /\ authOut.err = ErrSaveCredentials => cfg.Providers = authOut.ProvidersWas
        /\ cfg.Providers # authOut.ProvidersWas =>
              /\ authOut.err = ErrNil
              /\ authOut.steps = <<"Login", "SaveCredentials", "Save">>
              /\ Login(NoClient, authOut.credentials, "none").err = ErrNil
              /\ keyring["google"] = Secret(authOut.credentials.api_key)

\* the secret store failed after the credentials were authenticated
C26_Witness ==
    /\ authOut.op = "login"
    /\ authOut.err = ErrSaveCredentials
    /\ authOut.steps = <<"Login", "SaveCredentials">>
    /\ cfg.Providers = <<"other">>

\* C27 (SpecAuth): auth logout deletes the provider's credentials before it
\* changes the config: when DeleteCredentials returns an error, as it does
\* when the secret store holds no entry for the provider, the command
\* returns an error and the saved config still lists the provider, so that
\* every later logout of that provider fails in the same way.
C27_LogoutDeletesCredentialsFirst ==
    /\ [](authOut.op = "logout" =>
            /\ authOut.steps \in {<<>>, <<"DeleteCredentials">>,
                                   <<"DeleteCredentials", "Save">>}
            /\ (authOut.steps # <<>> /\ ~authOut.secretWas.found) =>
                  authOut.err = ErrDeleteCredentials
            /\ authOut.err = ErrDeleteCredentials =>
                  /\ cfg.Providers = authOut.ProvidersWas
                  /\ \E i \in 1..Len(cfg.Providers) : cfg.Providers[i] = authOut.provider
                  /\ keyring["google"] = authOut.secretWas)
    /\ [][((\E i \in 1..Len(cfg.Providers) : cfg.Providers[i] = "google")
              /\ ~keyring["google"].found)
            => ((\E i \in 1..Len(cfg'.Providers) : cfg'.Providers[i] = "google")
                   /\ ~keyring'["google"].found)]_vars

\* a logout of google failed because the secret store held no entry for it
C27_Witness ==
    /\ authOut.op = "logout"
    /\ authOut.provider = "google"
    /\ authOut.err = ErrDeleteCredentials
    /\ ~authOut.secretWas.found

====
